---- MODULE Spec2Model ----
(***************************************************************************)
(* Model of the Cito/SHFT protocol client, class CitoBase of               *)
(* ressources/citobase.py: the frame codecs of the two transports, the     *)
(* CRC16 of the serial framing, the transaction counter, and               *)
(* _data_exchange as a state machine whose steps are split at the          *)
(* transport calls (send, recv, one pass of the serial receive loop), the   *)
(* public read / write operations built on it, open / isopen / close, the  *)
(* scans of the error and warning slots, the high level functions and      *)
(* decode_cito_exception_code.                                             *)
(* Python lists are 0-based, TLA+ sequences 1-based: list[i] is seq[i+1].  *)
(* A str is the sequence of its code points.                               *)
(***************************************************************************)
EXTENDS Integers, Sequences, FiniteSets, TLC

VARIABLES
    host_mode,              \* self.host_mode
    transaction_number,     \* self.transaction_number
    pc,                     \* position in _data_exchange: idle, send, recv
    calls,                  \* number of calls of _data_exchange so far
    tx_data,                \* argument of the running / last call
    tx_transaction_number,  \* local tx_transaction_number (ETHERNET only)
    tx_array,               \* local tx_array: the outbound frame
    tx_function_code,       \* local tx_function_code
    rx_data_buffer,         \* local rx_data_buffer
    rx_data_recv,           \* local rx_data_recv
    ser_rx_complete,        \* local ser_rx_complete
    result,                 \* how the last call ended, and what it returned
    io,                     \* transport calls made by the running / last call
    sent_bytes,             \* bytes the transport was handed by the last send
    wire,                   \* serial: bytes of the device not yet arrived
    in_waiting,             \* serial: bytes in the port's input buffer
    crc_data,               \* input of _calc_crc16 when it is studied alone
    crc_out,                \* its result, once it has been applied
    socket,                 \* self._socket: unset, unconnected, connected, closed
    lifecycle,              \* the last call of open() / close() and its outcome
    op,                     \* the running / last public operation
    ret,                    \* what it returned or raised
    fault,                  \* exception / time limit met by the running call
    dev_value,              \* the device: value stored for each parameter
    scan,                   \* the running / last read_errors_* / read_warnings_*
    decoded,                \* last call of decode_cito_exception_code
    leftover,               \* serial: unread bytes of earlier replies at the
                            \* last write
    now,                    \* round(1000 * time()) - rx_start_time, in ms
    buffered_at,            \* value of now at the last read of the port
    ctor,                   \* arguments and outcome of CitoBase.__init__
    rel,                    \* setup.py: rel, the relays of the USB board
    recipe,                 \* setup.py: arguments of Recipe(...)
    rpc,                    \* setup.py: position in Recipe / end_recipe
    recipe_i,               \* setup.py: loop counter i of Recipe
    recipe_step,            \* setup.py: loop counter step of Recipe
    trace                   \* setup.py: commands to the relays and calls on
                            \* citoctrl, in the order they were made

vars == <<host_mode, transaction_number, pc, calls, tx_data,
          tx_transaction_number, tx_array, tx_function_code, rx_data_buffer,
          rx_data_recv, ser_rx_complete, result, io, sent_bytes, wire,
          in_waiting, crc_data, crc_out, socket, lifecycle, op, ret, fault,
          dev_value, scan, decoded, leftover, now, buffered_at, ctor, rel,
          recipe, rpc, recipe_i, recipe_step, trace>>

\* the clock of the serial receive loop, the constructor's call and the
\* recipe layer: left alone by the operations of the client
restVars == <<now, buffered_at, ctor, rel, recipe, rpc, recipe_i,
             recipe_step, trace>>

(***************************************************************************)
(* Bounds of the model.                                                    *)
(***************************************************************************)
MaxCalls == 2          \* calls of _data_exchange in one behaviour of Spec
MaxPayloadLen == 254   \* longest payload handed to _data_exchange
MaxStale == 0          \* most unread bytes of earlier replies at which the
                       \* serial device still answers a new request
MaxCrcLen == 3         \* longest input of _calc_crc16 studied alone
SeqCalls == 65538      \* calls in one behaviour of SpecSeq (beyond the wrap)
MaxConnCalls == 1      \* calls of _data_exchange in one behaviour of SpecConn
MaxDevCalls == 2       \* calls of _data_exchange in one behaviour of SpecDev
MaxAppCalls == 1       \* calls of _data_exchange in one behaviour of SpecApp
MaxRoundCalls == 2     \* calls of _data_exchange in one behaviour of SpecRound
MaxStaleCalls == 2     \* calls of _data_exchange in one behaviour of SpecStale
MaxLeftover == 10      \* most unread bytes of earlier replies in SpecStale
MaxWrapCalls == 2      \* calls of _data_exchange in one behaviour of SpecWrap
MaxCycles == 2         \* most cycles N of a recipe in SpecRecipe
MaxTimeCalls == 1      \* calls of _data_exchange in one behaviour of SpecTime
TickMs == 500          \* ms by which the clock of SpecTime advances in a step
MaxReqCalls == 1       \* calls of _data_exchange in one behaviour of SpecReq
MaxScanCalls == 34     \* calls of _data_exchange in one behaviour of SpecScan
MaxDecodeCalls == 1    \* calls of _data_exchange in one behaviour of SpecDecode

(***************************************************************************)
(* Program constants.                                                      *)
(***************************************************************************)
ETHERNET == 0
SERIAL == 1
FC_READ == 65                   \* 0x41
FC_WRITE == 66                  \* 0x42
serial_timeout == 1000          \* ms
ISOCKET_READ_ERROR == 194       \* 0xC2
ISOCKET_WRITE_ERROR == 195      \* 0xC3
ISOCKET_WRITE_TIMEOUT == 196    \* 0xC4
ISOCKET_READ_TIMEOUT == 197     \* 0xC5
ISOCKET_INVALID_REPLY == 198    \* 0xC6
CATCHALL_CODE == 255            \* 0xFF
PNUM_COMMAND == 1001
PNUM_POWER_SETPOINT == 1206
PNUM_STATE == 8000
PNUM_RF_FREQUENCY == 8011
PNUM_FORW_POWER == 8021
PNUM_REFL_POWER == 8022
PNUM_LOAD_POWER == 8023
PNUM_CEX_FREQUENCY == 8041
PVAL_CMD_RFOFF == 0
PVAL_CMD_RFON == 1
PVAL_CMD_RESET == 9
PVAL_STATE_INIT == 0
PVAL_STATE_RF_OFF == 1
PVAL_STATE_RF_ON == 2
PVAL_STATE_ERROR == 3
PVAL_STATE_CALIB == 4
PVAL_STATE_UPDATE == 5
PVAL_STATE_BLOCKED == 6

(***************************************************************************)
(* Integer helpers: Python's bit operators on non-negative integers.       *)
(***************************************************************************)
RECURSIVE BitXor(_, _)
\* a ^ b
BitXor(a, b) ==
    IF a = 0 THEN b
    ELSE IF b = 0 THEN a
    ELSE 2 * BitXor(a \div 2, b \div 2) + (((a % 2) + (b % 2)) % 2)

\* (n >> 8) & 0xFF
HiByte(n) == (n \div 256) % 256

\* n & 0xFF
LoByte(n) == n % 256

\* list[:-2]
DropLast2(s) == IF Len(s) <= 2 THEN <<>> ELSE SubSeq(s, 1, Len(s) - 2)

\* list[-2:]
Last2(s) == IF Len(s) <= 2 THEN s ELSE SubSeq(s, Len(s) - 1, Len(s))

\* list[6:]
DropFirst6(s) == IF Len(s) <= 6 THEN <<>> ELSE SubSeq(s, 7, Len(s))

(***************************************************************************)
(* _calc_crc16: the lookup table and the byte-wise loop.                   *)
(***************************************************************************)
crc16_tab == <<
    0, 49345, 49537, 320, 49921, 960, 640, 49729,
    50689, 1728, 1920, 51009, 1280, 50625, 50305, 1088,
    52225, 3264, 3456, 52545, 3840, 53185, 52865, 3648,
    2560, 51905, 52097, 2880, 51457, 2496, 2176, 51265,
    55297, 6336, 6528, 55617, 6912, 56257, 55937, 6720,
    7680, 57025, 57217, 8000, 56577, 7616, 7296, 56385,
    5120, 54465, 54657, 5440, 55041, 6080, 5760, 54849,
    53761, 4800, 4992, 54081, 4352, 53697, 53377, 4160,
    61441, 12480, 12672, 61761, 13056, 62401, 62081, 12864,
    13824, 63169, 63361, 14144, 62721, 13760, 13440, 62529,
    15360, 64705, 64897, 15680, 65281, 16320, 16000, 65089,
    64001, 15040, 15232, 64321, 14592, 63937, 63617, 14400,
    10240, 59585, 59777, 10560, 60161, 11200, 10880, 59969,
    60929, 11968, 12160, 61249, 11520, 60865, 60545, 11328,
    58369, 9408, 9600, 58689, 9984, 59329, 59009, 9792,
    8704, 58049, 58241, 9024, 57601, 8640, 8320, 57409,
    40961, 24768, 24960, 41281, 25344, 41921, 41601, 25152,
    26112, 42689, 42881, 26432, 42241, 26048, 25728, 42049,
    27648, 44225, 44417, 27968, 44801, 28608, 28288, 44609,
    43521, 27328, 27520, 43841, 26880, 43457, 43137, 26688,
    30720, 47297, 47489, 31040, 47873, 31680, 31360, 47681,
    48641, 32448, 32640, 48961, 32000, 48577, 48257, 31808,
    46081, 29888, 30080, 46401, 30464, 47041, 46721, 30272,
    29184, 45761, 45953, 29504, 45313, 29120, 28800, 45121,
    20480, 37057, 37249, 20800, 37633, 21440, 21120, 37441,
    38401, 22208, 22400, 38721, 21760, 38337, 38017, 21568,
    39937, 23744, 23936, 40257, 24320, 40897, 40577, 24128,
    23040, 39617, 39809, 23360, 39169, 22976, 22656, 38977,
    34817, 18624, 18816, 35137, 19200, 35777, 35457, 19008,
    19968, 36545, 36737, 20288, 36097, 19904, 19584, 35905,
    17408, 33985, 34177, 17728, 34561, 18368, 18048, 34369,
    33281, 17088, 17280, 33601, 16640, 33217, 32897, 16448 >>

RECURSIVE Crc16LoopShift7(_, _)
\* the loop shifting the running value by 7 bits instead of 8
Crc16LoopShift7(data, n) ==
    IF n = 0 THEN 0
    ELSE LET crc == Crc16LoopShift7(data, n - 1)
         IN  BitXor(crc \div 128, crc16_tab[BitXor(crc % 256, data[n]) + 1])

RECURSIVE Crc16Loop(_, _)
\* the local crc after n passes of the loop:
\* crc = 0
\* for offset in range(0, len(data)):
\*     crc = (crc >> 8) ^ crc16_tab[(crc & 0xFF) ^ data[offset]]
Crc16Loop(data, n) ==
    IF n = 0 THEN 0
    ELSE LET crc == Crc16Loop(data, n - 1)
         IN  BitXor(crc \div 256, crc16_tab[BitXor(crc % 256, data[n]) + 1])

\* the value of the local crc when the loop ends
Crc16Value(data) == Crc16Loop(data, Len(data))

\* return (crc & 0xFF), ((crc & 0xFF00) >> 8)
CalcCrc16SwappedBytes(data) ==
    <<(Crc16Value(data) \div 256) % 256, Crc16Value(data) % 256>>

calc_crc16(data) ==
    <<Crc16Value(data) % 256, (Crc16Value(data) \div 256) % 256>>

(***************************************************************************)
(* The transaction counter and the two outbound frames.                    *)
(***************************************************************************)
\* a counter that wraps one step early, never using 0xFFFF
NextTransactionNumberWrapEarly(n) == IF n + 1 >= 65535 THEN 0 ELSE n + 1

\* self.transaction_number += 1; if > 0xFFFF: self.transaction_number = 0
NextTransactionNumber(n) == IF n + 1 > 65535 THEN 0 ELSE n + 1

\* the encoder's guard with the upper limit off by one
PayloadLenOkLoose(tx) == ~(Len(tx) <= 4) /\ ~(Len(tx) > 253)

\* neither "Data packet too short" nor "Data packet too long" is raised
PayloadLenOk(tx) == ~(Len(tx) <= 4) /\ ~(Len(tx) >= 253)

\* the header with the length bytes in the wrong order
EthHeaderLenSwapped(tn, n) ==
    <<HiByte(tn), LoByte(tn), 0, 0, LoByte(n), HiByte(n)>>

\* bytes 0..5 of the Ethernet frame
EthHeader(tn, n) == <<HiByte(tn), LoByte(tn), 0, 0, HiByte(n), LoByte(n)>>

\* tx_array of the ETHERNET branch
EthFrame(tn, tx) == EthHeader(tn, Len(tx)) \o tx

\* tx_array of the SERIAL branch
SerFrame(tx) == tx \o calc_crc16(tx)

\* the function code taken at offset 1 in both modes
TxFunctionCodeOffset1(mode, frame) ==
    IF Len(frame) >= 2 THEN frame[2] ELSE 0

\* tx_function_code
TxFunctionCode(mode, frame) ==
    IF mode = ETHERNET
    THEN IF Len(frame) >= 8 THEN frame[8] ELSE 0
    ELSE IF Len(frame) >= 2 THEN frame[2] ELSE 0

(***************************************************************************)
(* Inbound: the serial checksum test, the Modbus/TCP header test, and the  *)
(* classification of the reply.                                            *)
(***************************************************************************)
\* the test without the minimum length
SerialCompleteNoMinLen(buf) == Last2(buf) = calc_crc16(DropLast2(buf))

\* the test with the minimum length off by one
SerialCompleteMin6(buf) ==
    Len(buf) >= 6 /\ Last2(buf) = calc_crc16(DropLast2(buf))

\* len(rx_data_buffer) >= 5 and rx_crc16 == list(calc_crc16)
SerialComplete(buf) ==
    Len(buf) >= 5 /\ Last2(buf) = calc_crc16(DropLast2(buf))

\* the test without the minimum of 9 bytes
EthAcceptedNoMinLen(recv) ==
    Len(recv) >= 6 /\ Len(recv) = (recv[5] * 256) + recv[6] + 6

\* rx_array_len >= 9 and rx_array_len == rx_modbus_length_field + 6
EthAccepted(recv) ==
    Len(recv) >= 9 /\ Len(recv) = (recv[5] * 256) + recv[6] + 6

\* rx_data_shft
RxDataShft(mode, recv) ==
    IF mode = ETHERNET
    THEN IF EthAccepted(recv) THEN DropFirst6(recv) ELSE <<>>
    ELSE DropLast2(recv)

Returned(code, data) ==
    [outcome |-> "returned", code |-> code, data |-> data, exc |-> "",
     classified |-> FALSE]

Raised(exc) ==
    [outcome |-> "raised", code |-> -1, data |-> <<>>, exc |-> exc,
     classified |-> FALSE]

NoResult ==
    [outcome |-> "none", code |-> -1, data |-> <<>>, exc |-> "",
     classified |-> FALSE]

\* the read branch also checking the length of the reply
ExceptionCodeOfReadChecked(sent, fc, recv, shft) ==
    IF shft[2] = FC_READ
    THEN IF Len(shft) # 7 THEN ISOCKET_INVALID_REPLY ELSE 0
    ELSE IF shft[2] = FC_WRITE
         THEN IF recv # sent THEN ISOCKET_INVALID_REPLY ELSE 0
    ELSE IF shft[2] = fc + 128 THEN shft[3]
    ELSE CATCHALL_CODE

\* the chain without a catch-all: another function code is a success
ExceptionCodeOfNoCatchAll(sent, fc, recv, shft) ==
    IF shft[2] = FC_READ THEN 0
    ELSE IF shft[2] = FC_WRITE
         THEN IF recv # sent THEN ISOCKET_INVALID_REPLY ELSE 0
    ELSE IF shft[2] = fc + 128 THEN shft[3]
    ELSE 0

\* rx_exception_code of the if / elif chain on rx_function_code
\* (shft has at least 2 elements; shft[3] is read only in the third branch)
ExceptionCodeOf(sent, fc, recv, shft) ==
    IF shft[2] = FC_READ THEN 0
    ELSE IF shft[2] = FC_WRITE
         THEN IF recv # sent THEN ISOCKET_INVALID_REPLY ELSE 0
    ELSE IF shft[2] = fc + 128 THEN shft[3]
    ELSE CATCHALL_CODE

\* from "rx_function_code = rx_data_shft[1]" to the return: an index out of
\* range raises IndexError
Classify(mode, sent, fc, recv) ==
    LET shft == RxDataShft(mode, recv) IN
    IF Len(shft) < 2 THEN Raised("IndexError")
    ELSE IF shft[2] # FC_READ /\ shft[2] # FC_WRITE /\ shft[2] = fc + 128
            /\ Len(shft) < 3
         THEN Raised("IndexError")
    ELSE [Returned(ExceptionCodeOf(sent, fc, recv, shft), shft)
            EXCEPT !.classified = TRUE]

(***************************************************************************)
(* The except clauses around the transport calls.  An exception is named   *)
(* by its class; "" stands for a call that returned normally.              *)
(***************************************************************************)
\* except socket.timeout: 0xC4 / except Exception: 0xC3 (same in both modes)
SendFailureCode(mode, exc) ==
    IF exc = "socket.timeout" THEN ISOCKET_WRITE_TIMEOUT
    ELSE ISOCKET_WRITE_ERROR

\* ETHERNET: except socket.timeout: 0xC5 / except Exception: 0xC2
EthRecvFailureCode(exc) ==
    IF exc = "socket.timeout" THEN ISOCKET_READ_TIMEOUT
    ELSE ISOCKET_READ_ERROR

(***************************************************************************)
(* The public operations: packing and unpacking of values, the checks of   *)
(* write_ip_addr, and what each operation makes of the pair                *)
(* (rx_exception_code, rx_data) that _data_exchange returned.              *)
(***************************************************************************)
\* An unsigned 32-bit value n is kept as its two 16-bit halves,
\* [hi |-> n >> 16, lo |-> n & 0xFFFF]; a signed one is an integer.
U32(hi, lo) == [hi |-> hi, lo |-> lo]

\* pack("!I", n)
PackU32(n) == <<n.hi \div 256, n.hi % 256, n.lo \div 256, n.lo % 256>>

\* pack("!i", v) raises struct.error outside -2^31 .. 2^31 - 1
PackI32Ok(v) == v >= (0 - 2147483647) - 1 /\ v <= 2147483647

\* pack("!i", v) for v in range: two's complement, big-endian (\div rounds
\* down, % is never negative)
PackI32(v) ==
    <<(v \div 16777216) % 256, (v \div 65536) % 256, (v \div 256) % 256,
      v % 256>>

\* unpack('!I', b)[0] for four bytes b
UnpackU32(b) == U32((b[1] * 256) + b[2], (b[3] * 256) + b[4])

\* unpack('!i', b)[0] for four bytes b
UnpackI32(b) ==
    ((IF b[1] >= 128 THEN b[1] - 256 ELSE b[1]) * 16777216)
        + (b[2] * 65536) + (b[3] * 256) + b[4]

RECURSIVE SplitStr(_, _)
\* str.split(sep) for a separator of one character
SplitStr(str, sep) ==
    IF \A i \in 1..Len(str) : str[i] # sep THEN <<str>>
    ELSE LET i == CHOOSE k \in 1..Len(str) :
                      str[k] = sep /\ \A j \in 1..(k - 1) : str[j] # sep
         IN  <<SubSeq(str, 1, i - 1)>>
                 \o SplitStr(SubSeq(str, i + 1, Len(str)), sep)

\* code points int() strips from both ends
Whitespace == {9, 10, 11, 12, 13, 32}

RECURSIVE StripStr(_)
\* str.strip()
StripStr(str) ==
    IF str = <<>> THEN str
    ELSE IF str[1] \in Whitespace THEN StripStr(Tail(str))
    ELSE IF str[Len(str)] \in Whitespace
         THEN StripStr(SubSeq(str, 1, Len(str) - 1))
    ELSE str

\* str without the sign int() accepts in front of the digits
Unsigned(str) ==
    IF str # <<>> /\ str[1] \in {43, 45} THEN Tail(str) ELSE str

RECURSIVE DecValue(_)
\* the number written by a string of decimal digits
DecValue(digits) ==
    IF digits = <<>> THEN 0
    ELSE (DecValue(SubSeq(digits, 1, Len(digits) - 1)) * 10)
             + (digits[Len(digits)] - 48)

\* int(str) does not raise ValueError (str holds no underscore): blanks,
\* an optional sign, one or more decimal digits, blanks
IntOk(str) ==
    LET digits == Unsigned(StripStr(str))
    IN  Len(digits) > 0 /\ \A i \in 1..Len(digits) : digits[i] \in 48..57

\* int(str) when it does not raise
IntOf(str) ==
    LET t == StripStr(str)
    IN  IF t[1] = 45 THEN 0 - DecValue(Unsigned(t)) ELSE DecValue(Unsigned(t))

RECURSIVE DecStr(_)
\* "{0}".format(n) for n >= 0
DecStr(n) ==
    IF n < 10 THEN <<48 + n>> ELSE DecStr(n \div 10) \o <<48 + (n % 10)>>

\* the range check with the last octet left out
WriteIpAddrOkFirstThree(value) ==
    LET ip_array == SplitStr(value, 46)
    IN  /\ Len(ip_array) = 4
        /\ \A i \in 1..4 : IntOk(ip_array[i])
        /\ \A i \in 1..3 : IntOf(ip_array[i]) >= 0 /\ IntOf(ip_array[i]) <= 255

\* write_ip_addr: none of the three "return 0x04" is taken
WriteIpAddrOk(value) ==
    LET ip_array == SplitStr(value, 46)
    IN  /\ Len(ip_array) = 4
        /\ \A i \in 1..4 : IntOk(ip_array[i])
        /\ \A i \in 1..4 : IntOf(ip_array[i]) >= 0 /\ IntOf(ip_array[i]) <= 255

\* ip_value_int = ip_byte_1 * 256 ** 3 + ip_byte_2 * 256 ** 2
\*                    + ip_byte_3 * 256 + ip_byte_4, each byte in 0..255
IpValueInt(value) ==
    LET ip_array == SplitStr(value, 46)
    IN  U32((IntOf(ip_array[1]) * 256) + IntOf(ip_array[2]),
            (IntOf(ip_array[3]) * 256) + IntOf(ip_array[4]))

\* a public operation and its arguments: value is the integer argument,
\* text the str argument (or the list handed to _data_exchange directly);
\* type is the class of the value argument where the operation tests it
Op(name, parameter, value, text) ==
    [name |-> name, parameter |-> parameter, value |-> value, text |-> text,
     type |-> "int"]

\* a function of one argument: value of class "int" or "bool" (True is 1),
\* value of class "float" (the whole number value, as a float), text of
\* class "str", or None
OpOf(name, type, value, text) ==
    [Op(name, 0, value, text) EXCEPT !.type = type]

NoOp == Op("", 0, 0, <<>>)

(***************************************************************************)
(* The high level functions: each makes one call of read_integer or of     *)
(* write_integer.                                                          *)
(***************************************************************************)
\* the functions that return int(value / 1000), and the parameter each reads
DividingGetters ==
    {"get_power_setpoint_watts", "get_rf_frequency", "get_cex_frequency",
     "get_forward_power_watts", "get_reflected_power_watts",
     "get_load_power_watts"}

GetterParameter(name) ==
    IF name = "get_power_setpoint_watts" THEN PNUM_POWER_SETPOINT
    ELSE IF name = "get_rf_frequency" THEN PNUM_RF_FREQUENCY
    ELSE IF name = "get_cex_frequency" THEN PNUM_CEX_FREQUENCY
    ELSE IF name = "get_forward_power_watts" THEN PNUM_FORW_POWER
    ELSE IF name = "get_reflected_power_watts" THEN PNUM_REFL_POWER
    ELSE IF name = "get_load_power_watts" THEN PNUM_LOAD_POWER
    ELSE PNUM_STATE

\* isinstance(value, int): bool is a subclass of int
IsInstanceInt(type) == type \in {"int", "bool"}

\* pack("!i", 1000 * value) does not raise struct.error: 1000 * value lies
\* in -2^31 .. 2^31 - 1
Times1000Packs(value) == value >= (0 - 2147483) /\ value <= 2147483

\* the quotient rounded down instead of toward zero
IntDiv1000Floor(value) == value \div 1000

\* int(value / 1000): the float quotient of a 32-bit value by 1000 is never
\* rounded to a whole number it does not equal, and int() drops its
\* fraction, rounding toward zero
IntDiv1000(value) ==
    IF value >= 0 THEN value \div 1000
    ELSE (value \div 1000) + (IF value % 1000 = 0 THEN 0 ELSE 1)

\* the chain with "Blocked" for every value from 6 on
StatusStringFrom6(value) ==
    IF value = PVAL_STATE_INIT THEN <<73, 110, 105, 116>>
    ELSE IF value = PVAL_STATE_RF_OFF THEN <<82, 70, 32, 111, 102, 102>>
    ELSE IF value = PVAL_STATE_RF_ON THEN <<82, 70, 32, 111, 110>>
    ELSE IF value = PVAL_STATE_ERROR THEN <<69, 114, 114, 111, 114>>
    ELSE IF value = PVAL_STATE_CALIB
    THEN <<67, 97, 108, 105, 98, 114, 97, 116, 105, 111, 110>>
    ELSE IF value = PVAL_STATE_UPDATE THEN <<85, 112, 100, 97, 116, 101>>
    ELSE IF value >= PVAL_STATE_BLOCKED
    THEN <<66, 108, 111, 99, 107, 101, 100>>
    ELSE <<85, 110, 100, 101, 102, 105, 110, 101, 100>>

\* the if / elif chain of get_rf_status_string: "Init", "RF off", "RF on",
\* "Error", "Calibration", "Update", "Blocked", else "Undefined"
StatusString(value) ==
    IF value = PVAL_STATE_INIT THEN <<73, 110, 105, 116>>
    ELSE IF value = PVAL_STATE_RF_OFF THEN <<82, 70, 32, 111, 102, 102>>
    ELSE IF value = PVAL_STATE_RF_ON THEN <<82, 70, 32, 111, 110>>
    ELSE IF value = PVAL_STATE_ERROR THEN <<69, 114, 114, 111, 114>>
    ELSE IF value = PVAL_STATE_CALIB
    THEN <<67, 97, 108, 105, 98, 114, 97, 116, 105, 111, 110>>
    ELSE IF value = PVAL_STATE_UPDATE THEN <<85, 112, 100, 97, 116, 101>>
    ELSE IF value = PVAL_STATE_BLOCKED
    THEN <<66, 108, 111, 99, 107, 101, 100>>
    ELSE <<85, 110, 100, 101, 102, 105, 110, 101, 100>>

\* set_rf_off with the test of set_rf_on
UnderlyingSamePolarity(o) ==
    IF o.name \in DividingGetters
              \cup {"get_rf_status_int", "get_rf_status_string"}
    THEN Op("read_integer", GetterParameter(o.name), 0, <<>>)
    ELSE IF o.name \in {"set_rf_on", "set_rf_off"}
    THEN Op("write_integer", PNUM_COMMAND,
            IF o.value # 0 THEN PVAL_CMD_RFON ELSE PVAL_CMD_RFOFF, <<>>)
    ELSE IF o.name = "reset_errors"
    THEN Op("write_integer", PNUM_COMMAND, PVAL_CMD_RESET, <<>>)
    ELSE IF o.name = "set_power_setpoint_watts"
    THEN Op("write_integer", PNUM_POWER_SETPOINT, 1000 * o.value, <<>>)
    ELSE o

\* the call of read_integer / write_integer a high level function makes
\* (its arguments having passed OpCheck); another operation is its own call
Underlying(o) ==
    IF o.name \in DividingGetters
              \cup {"get_rf_status_int", "get_rf_status_string"}
    THEN Op("read_integer", GetterParameter(o.name), 0, <<>>)
    ELSE IF o.name = "set_rf_on"
    THEN Op("write_integer", PNUM_COMMAND,
            IF o.value # 0 THEN PVAL_CMD_RFON ELSE PVAL_CMD_RFOFF, <<>>)
    ELSE IF o.name = "set_rf_off"
    THEN Op("write_integer", PNUM_COMMAND,
            IF o.value # 0 THEN PVAL_CMD_RFOFF ELSE PVAL_CMD_RFON, <<>>)
    ELSE IF o.name = "reset_errors"
    THEN Op("write_integer", PNUM_COMMAND, PVAL_CMD_RESET, <<>>)
    ELSE IF o.name = "set_power_setpoint_watts"
    THEN Op("write_integer", PNUM_POWER_SETPOINT, 1000 * o.value, <<>>)
    ELSE o

\* the operation returns before _data_exchange is called ("0x04"), raises
\* before it is called, or calls it ("call")
OpCheck(o) ==
    IF o.name = "write_ip_addr"
    THEN IF WriteIpAddrOk(o.text) THEN "call" ELSE "0x04"
    ELSE IF o.name = "write_integer"
    THEN IF PackI32Ok(o.value) THEN "call" ELSE "struct.error"
    ELSE IF o.name = "set_power_setpoint_watts"
    THEN IF ~IsInstanceInt(o.type) THEN "0x04"
         ELSE IF Times1000Packs(o.value) THEN "call" ELSE "struct.error"
    ELSE "call"

\* what an operation returned (code; value for the numeric, text for the str
\* and list results) or raised
Ret(code, value, text) ==
    [kind |-> "returned", code |-> code, value |-> value, text |-> text,
     exc |-> ""]

RetRaised(exc) ==
    [kind |-> "raised", code |-> -1, value |-> 0, text |-> <<>>, exc |-> exc]

NoRet ==
    [kind |-> "none", code |-> -1, value |-> 0, text |-> <<>>, exc |-> ""]

\* read_integer after _data_exchange has returned
read_integer(rx_exception_code, rx_data) ==
    IF rx_exception_code = 0 /\ Len(rx_data) = 7
    THEN Ret(rx_exception_code, UnpackI32(SubSeq(rx_data, 4, 7)), <<>>)
    ELSE Ret(rx_exception_code, 0, <<>>)

\* read_string after _data_exchange has returned: rx_data[2] and
\* rx_data[3 + data_byte_number] raise IndexError past the end of rx_data
read_string(rx_exception_code, rx_data) ==
    IF rx_exception_code = 0
    THEN IF Len(rx_data) < 3 THEN RetRaised("IndexError")
         ELSE IF Len(rx_data) < 3 + rx_data[3] THEN RetRaised("IndexError")
         ELSE Ret(rx_exception_code, 0, SubSeq(rx_data, 4, 3 + rx_data[3]))
    ELSE Ret(rx_exception_code, 0, <<>>)

\* read_float after _data_exchange has returned.  A float is named by the
\* four bytes of its '!f' encoding: the value returned is round(f, 6) of the
\* float f that these bytes encode
read_float(rx_exception_code, rx_data) ==
    IF rx_exception_code = 0 /\ Len(rx_data) = 7
    THEN Ret(rx_exception_code, 0, SubSeq(rx_data, 4, 7))
    ELSE Ret(rx_exception_code, 0, <<>>)

\* read_ip_addr after _data_exchange has returned
read_ip_addr(rx_exception_code, rx_data) ==
    LET rx_data_int ==
            IF rx_exception_code = 0 /\ Len(rx_data) = 7
            THEN UnpackU32(SubSeq(rx_data, 4, 7)) ELSE U32(0, 0)
    IN  IF rx_exception_code = 0
        THEN Ret(rx_exception_code, 0,
                 DecStr(rx_data_int.hi \div 256) \o <<46>>
                     \o DecStr(rx_data_int.hi % 256) \o <<46>>
                     \o DecStr((rx_data_int.lo \div 256) % 256) \o <<46>>
                     \o DecStr(rx_data_int.lo % 256))
        ELSE Ret(rx_exception_code, 0, <<>>)

(***************************************************************************)
(* decode_cito_exception_code and its table.                               *)
(***************************************************************************)
modbus_exception_codes ==
    (0 :> "NO_ERRORS") @@
    (1 :> "EXCEPT_ILLEGAL_FUNCTION") @@
    (2 :> "EXCEPT_ILLEGAL_DATA_ADDRESS") @@
    (3 :> "EXCEPT_ILLEGAL_DATA_VALUE") @@
    (4 :> "EXCEPT_SLAVE_DEVICE_FAILURE") @@
    (5 :> "EXCEPT_ACKNOWLEDGE") @@
    (6 :> "EXCEPT_SLAVE_DEVICE_BUSY") @@
    (7 :> "EXCEPT_NEGATIVE_ACKNOWLEDGE") @@
    (8 :> "EXCEPT_MEMORY_PARITY_ERROR") @@
    (10 :> "EXCEPT_GATEWAY_PATH_UNAVAILABLE") @@
    (11 :> "EXCEPT_GATEWAY_TARGET_DEVICE_FAILED_TO_RESPOND") @@
    (129 :> "SHFT_PARAFAULT_UNKNOWN_PARAMETER") @@
    (130 :> "SHFT_PARAFAULT_INDEX") @@
    (131 :> "SHFT_PARAFAULT_INDEX_MAX") @@
    (132 :> "SHFT_PARAFAULT_VALUE_INVALID") @@
    (133 :> "SHFT_PARAFAULT_NOT_WRITEABLE") @@
    (134 :> "SHFT_PARAFAULT_NOT_READABLE") @@
    (135 :> "SHFT_PARAFAULT_STOP") @@
    (136 :> "SHFT_PARAFAULT_NOT_ALLOWED") @@
    (137 :> "SHFT_PARAFAULT_TYPE") @@
    (138 :> "SHFT_PARAFAULT_INTERNAL") @@
    (139 :> "SHFT_PARAFAULT_VALUE_OVL") @@
    (140 :> "SHFT_PARAFAULT_VALUE_NOVL") @@
    (193 :> "ISOCKET_INVALID_ARGUMENT") @@
    (194 :> "ISOCKET_READ_ERROR") @@
    (195 :> "ISOCKET_WRITE_ERROR") @@
    (196 :> "ISOCKET_WRITE_TIMEOUT") @@
    (197 :> "ISOCKET_READ_TIMEOUT") @@
    (198 :> "ISOCKET_INVALID_REPLY") @@
    (209 :> "RFGENTHR_PARAMETER_INVALID") @@
    (210 :> "RFGENTHR_PARAMETER_INVALID_CASE_READ") @@
    (211 :> "RFGENTHR_PARAMETER_INVALID_CASE_WRITE") @@
    (212 :> "RFGENTHR_PARAMETER_TOO_MANY_PARAINFOS") @@
    (213 :> "RFGENTHR_PARAMETER_STOP_REQUESTED") @@
    (214 :> "RFGENTHR_PARAMETER_CANCELED") @@
    (215 :> "RFGENTHR_TIMEOUT") @@
    (225 :> "DLL_NO_FREE_HANDLE") @@
    (226 :> "DLL_CREATE_CONNECTION_FAILED") @@
    (227 :> "DLL_INVALID_HANDLE") @@
    (228 :> "DLL_INVALID_PARAMETER")

\* the lookup with the highest bit of the code dropped
decode_low_bits(exception_code) ==
    IF (exception_code % 128) \in DOMAIN modbus_exception_codes
    THEN modbus_exception_codes[exception_code % 128]
    ELSE "UNKNOWN_EXCEPTION_CODE"

\* decode_cito_exception_code(exception_code)
decode_cito_exception_code(exception_code) ==
    IF exception_code \in DOMAIN modbus_exception_codes
    THEN modbus_exception_codes[exception_code]
    ELSE "UNKNOWN_EXCEPTION_CODE"

\* a call of decode_cito_exception_code: its argument and, once it has
\* returned, its result
Decoded(code, name) == [code |-> code, name |-> name]

NoDecoded == Decoded(-1, "")

(***************************************************************************)
(* The scans of the error and warning slots: read_errors_as_text,          *)
(* read_errors_as_numbers, read_warnings_as_text, read_warnings_as_numbers.*)
(***************************************************************************)
\* list(range(start, stop, step)) for step > 0
Range(start, stop, step) ==
    [k \in 1..(((stop - start) + (step - 1)) \div step) |->
        start + ((k - 1) * step)]

ScanNames ==
    {"read_errors_as_text", "read_errors_as_numbers",
     "read_warnings_as_text", "read_warnings_as_numbers"}

\* the values of the loop variable of a scan
ScanCounters(name) ==
    IF name = "read_errors_as_text" THEN Range(8101, 8133, 2)
    ELSE IF name = "read_errors_as_numbers" THEN Range(0, 17, 1)
    ELSE IF name = "read_warnings_as_text" THEN Range(8151, 8167, 1)
    ELSE Range(8167, 8183, 1)

\* the parameter read first in the pass of the loop for counter
SlotParameter(name, counter) ==
    IF name = "read_errors_as_numbers" THEN 8133 + counter ELSE counter

\* the scan reads an error state after an active slot
ReadsState(name) ==
    name \in {"read_errors_as_text", "read_errors_as_numbers"}

\* the parameter the error state is read from
StateParameter(name, counter) ==
    IF name = "read_errors_as_text" THEN counter + 1
    ELSE 8102 + (2 * counter)

\* the slots are read with read_string
ReadsText(name) ==
    name \in {"read_errors_as_text", "read_warnings_as_text"}

\* the read of a slot
SlotRead(name, counter) ==
    Op(IF ReadsText(name) THEN "read_string" ELSE "read_integer",
       SlotParameter(name, counter), 0, <<>>)

\* the test on what the read of a slot returned, with "and" for "or"
SlotActiveEither(name, r) ==
    r.code = 0 \/ (IF ReadsText(name) THEN Len(r.text) > 0 ELSE r.value > 0)

\* the test on what the read of a slot returned: (x[0] == 0) and
\* (len(x[1]) > 0), or (x[0] == 0) and (x[1] > 0)
SlotActive(name, r) ==
    r.code = 0 /\ (IF ReadsText(name) THEN Len(r.text) > 0 ELSE r.value > 0)

\* element [1] of what a read returned
Second(name, r) == IF ReadsText(name) THEN r.text ELSE r.value

\* a scan in the pass for the counter-th value: stage is "slot" while the
\* slot is read, "state" while the error state is read, "returned" or
\* "raised" once the scan has ended; slot is what the read of the slot
\* returned, array the list built so far, log the reads made so far
Scan(name, counter, stage, slot, array, log) ==
    [name |-> name, counter |-> counter, stage |-> stage, slot |-> slot,
     array |-> array, log |-> log]

NoScan == Scan("", 0, "none", NoRet, <<>>, <<>>)

ScanRunning == scan.stage \in {"slot", "state"}

\* a read that has ended, as the scan's log keeps it
LogEntry(o, r) ==
    [name |-> o.name, parameter |-> o.parameter, kind |-> r.kind,
     code |-> r.code, value |-> r.value, text |-> r.text]

(***************************************************************************)
(* Requests built by the public operations, used as arguments of           *)
(* _data_exchange.                                                         *)
(***************************************************************************)
\* the request with the count 0x00, 0x01 left out
ReadRequestNoCount(parameter) ==
    <<10, FC_READ, HiByte(parameter), LoByte(parameter)>>

\* tx_array of read_integer / read_float / read_string / read_ip_addr
ReadRequest(parameter) ==
    <<10, FC_READ, HiByte(parameter), LoByte(parameter), 0, 1>>

\* tx_array of write_integer / write_ip_addr, value_pack already packed
WriteRequest(parameter, value_pack) ==
    <<10, FC_WRITE, HiByte(parameter), LoByte(parameter)>> \o value_pack

\* tx_array of write_string for a value of n characters "A"
WriteStringRequest(parameter, n) ==
    <<10, FC_WRITE, HiByte(parameter), LoByte(parameter)>>
        \o [i \in 1..n |-> 65] \o <<0>>

\* an argument of _data_exchange of every length n
PayloadOfLen(n) ==
    IF n >= 5 THEN WriteStringRequest(PNUM_COMMAND, n - 5)
    ELSE SubSeq(<<10, FC_READ, 0, 0>>, 1, n)

\* tx_array of the operation o; the float of write_float is named by the
\* four bytes pack("!f", round(value, 6)) gives
TxArrayOf(o) ==
    LET u == Underlying(o)
    IN  IF u.name = "_data_exchange" THEN u.text
        ELSE IF u.name \in {"read_integer", "read_float", "read_string",
                            "read_ip_addr"}
        THEN ReadRequest(u.parameter)
        ELSE IF u.name = "write_integer"
        THEN WriteRequest(u.parameter, PackI32(u.value))
        ELSE IF u.name = "write_float"
        THEN WriteRequest(u.parameter, u.text)
        ELSE IF u.name = "write_ip_addr"
        THEN WriteRequest(u.parameter, PackU32(IpValueInt(u.text)))
        ELSE WriteRequest(u.parameter, u.text \o <<0>>)

\* the return statement of the operation o, res being what its call of
\* _data_exchange came to
LowReturn(o, res) ==
    IF res.outcome = "none" THEN NoRet
    ELSE IF res.outcome = "raised" THEN RetRaised(res.exc)
    ELSE IF o.name = "_data_exchange" THEN Ret(res.code, 0, res.data)
    ELSE IF o.name = "read_integer" THEN read_integer(res.code, res.data)
    ELSE IF o.name = "read_float" THEN read_float(res.code, res.data)
    ELSE IF o.name = "read_string" THEN read_string(res.code, res.data)
    ELSE IF o.name = "read_ip_addr" THEN read_ip_addr(res.code, res.data)
    ELSE Ret(res.code, 0, <<>>)

\* the return statement of a high level function, low being what its call
\* of read_integer / write_integer came to; another operation returns low
PublicReturn(o, res) ==
    LET low == LowReturn(Underlying(o), res)
    IN  IF low.kind # "returned" THEN low
        ELSE IF o.name \in DividingGetters
        THEN Ret(low.code, IntDiv1000(low.value), <<>>)
        ELSE IF o.name = "get_rf_status_string"
        THEN Ret(low.code, 0, StatusString(low.value))
        ELSE low

\* the lists _data_exchange is called with directly
TxPayloads(mode) ==
    IF mode = ETHERNET
    THEN {PayloadOfLen(n) : n \in {0, 4, 5, 252, 253, MaxPayloadLen}}
    ELSE {<<>>}

\* the operations called on the client of Spec
Ops(mode) ==
    {Op("_data_exchange", 0, 0, d) : d \in TxPayloads(mode)}
    \cup {Op("read_integer", PNUM_POWER_SETPOINT, 0, <<>>)}
    \cup (IF mode = ETHERNET
          THEN {Op("write_integer", PNUM_POWER_SETPOINT, 30000, <<>>),
                Op("read_string", PNUM_POWER_SETPOINT, 0, <<>>)}
          ELSE {Op("write_integer", PNUM_COMMAND, 1, <<>>)})

(***************************************************************************)
(* The device and the transports: what send, recv and the serial port can  *)
(* do.  The device answers a request with one of a few SHFT messages:      *)
(* the echo, a changed echo, a read reply, an exception reply, a reply     *)
(* with another function code, and short or damaged frames.                *)
(***************************************************************************)
\* s with its last byte changed
LastChanged(s) == [s EXCEPT ![Len(s)] = (@ + 1) % 256]

\* SHFT messages the device may answer with to a request of code fc
DeviceMessages(fc) ==
    {<<10, FC_READ, 4, 0, 0, 117, 48>>,
     <<10, (fc + 128) % 256, 4>>,
     <<10, (fc + 128) % 256, 0>>,
     <<10, 85, 0>>}

\* what socket.recv(300) can return for the frame just sent
EthReplies(sent) ==
    {sent, [sent EXCEPT ![2] = (@ + 1) % 256], LastChanged(sent)}
    \cup {EthHeader(sent[1] * 256 + sent[2], Len(m)) \o m :
             m \in DeviceMessages(sent[8])
                    \cup {<<10, FC_WRITE, 3, 233, 0, 0, 0, 1>>,
                          <<10, FC_READ, 4, 0, 0, 117, 48, 0>>}}
    \cup {<<>>,
          EthHeader(sent[1] * 256 + sent[2], 2) \o <<10, FC_READ>>,
          EthHeader(sent[1] * 256 + sent[2], 2) \o <<10, (sent[8] + 128) % 256>>,
          EthHeader(sent[1] * 256 + sent[2], 4) \o <<10, FC_READ, 0>>,
          EthHeader(sent[1] * 256 + sent[2], 3) \o <<10, FC_READ, 0, 0>>,
          <<0, 0, 0, 0, 0>>}

\* exceptions of socket.send / socket.recv, and of Serial.write
SendExceptions(mode) ==
    IF mode = ETHERNET THEN {"socket.timeout", "OSError"}
    ELSE {"SerialTimeoutException", "SerialException"}

RecvExceptions == {"socket.timeout", "OSError"}

\* exceptions of in_waiting / read(1) in the serial receive loop
SerRecvExceptions == {"SerialException", "OSError"}

\* what send / write raises on a handle that is not connected: there is no
\* attribute _socket before the first open()
ClosedHandleException(mode, sock) ==
    IF sock = "unset" THEN "AttributeError"
    ELSE IF mode = ETHERNET THEN "OSError"
    ELSE "PortNotOpenError"

\* a send that works whatever the handle is
SendOutcomesAnyHandle(mode, sock, exceptions) == {""} \cup exceptions

\* how a call of send / write can end: "" is a normal return
SendOutcomes(mode, sock, exceptions) ==
    IF sock = "connected" THEN {""} \cup exceptions
    ELSE {ClosedHandleException(mode, sock)}

\* byte strings the serial device may put on the line after a request
SerReplies(sent) ==
    {<<>>, sent, LastChanged(sent),
     SerFrame(LastChanged(DropLast2(sent) \o <<0>>)),
     SerFrame(<<10, FC_READ>>)}
    \cup {SerFrame(m) : m \in DeviceMessages(sent[2])}

\* parameters the device of SpecDev holds a value for
DevParams == {PNUM_POWER_SETPOINT}

\* its values before the first write
DevInit == [p \in DevParams |-> <<0, 0, 0, 0>>]

\* the request is a write of four bytes to a parameter the device holds
IsDevWrite(request) ==
    /\ Len(request) = 8
    /\ request[2] = FC_WRITE
    /\ ((request[3] * 256) + request[4]) \in DevParams

\* the request is a read of a parameter the device holds
IsDevRead(request) ==
    /\ Len(request) = 6
    /\ request[2] = FC_READ
    /\ ((request[3] * 256) + request[4]) \in DevParams

\* the device's values after it got the request
DevStore(dev, request) ==
    IF IsDevWrite(request)
    THEN [dev EXCEPT ![(request[3] * 256) + request[4]] =
                         SubSeq(request, 5, 8)]
    ELSE dev

\* the SHFT message the device answers with: a write is echoed, a read is
\* answered with the four bytes last written
DevAnswer(dev, request) ==
    IF IsDevWrite(request) THEN request
    ELSE IF IsDevRead(request)
    THEN <<10, FC_READ, 4>> \o dev[(request[3] * 256) + request[4]]
    ELSE <<10, (request[2] + 128) % 256, 2>>

\* what a request does at the device end of the line: the bytes the serial
\* device puts on the line, and the device's values afterwards
Answer(reply, dev) == [reply |-> reply, dev |-> dev]

\* any device of Spec
AnyAnswers(mode, sent, dev) ==
    IF mode = SERIAL THEN {Answer(r, dev) : r \in SerReplies(sent)}
    ELSE {Answer(<<>>, dev)}

\* the device of SpecDev
DevAnswers(mode, request, dev) ==
    IF mode = SERIAL
    THEN {Answer(SerFrame(DevAnswer(DevStore(dev, request), request)),
                 DevStore(dev, request))}
    ELSE {Answer(<<>>, DevStore(dev, request))}

\* what recv returns from the device of SpecDev
DevEthReplies(sent, request, dev) ==
    {EthFrame((sent[1] * 256) + sent[2], DevAnswer(dev, request))}

(***************************************************************************)
(* _data_exchange.                                                         *)
(***************************************************************************)
\* an argument of a call: None, or a value
NoneArg == [none |-> TRUE, value |-> 0]

\* no call of CitoBase(...) is studied
NoCtor ==
    [host_addr |-> <<>>, host_port |-> NoneArg, host_mode |-> NoneArg,
     outcome |-> "none", attributes |-> {}, self_host_port |-> 0,
     self_host_mode |-> 0]

\* Recipe(...) has not been called
NoRecipe ==
    [valves |-> <<>>, plasma |-> <<>>, N |-> 0, initgas |-> <<>>,
     fingas |-> <<>>]

\* no relay of the board is energised
RelaysAtRest == [r \in 1..3 |-> FALSE]

\* the constructor and the recipe layer are not studied, and no receive
\* loop has started
LayersAtRest ==
    /\ leftover = 0
    /\ now = 0
    /\ buffered_at = 0
    /\ ctor = NoCtor
    /\ rel = RelaysAtRest
    /\ recipe = NoRecipe
    /\ rpc = "off"
    /\ recipe_i = 0
    /\ recipe_step = 0
    /\ trace = <<>>

\* __init__ (self.transaction_number = 0x0000), no call made yet
InitClient ==
    /\ transaction_number = 0
    /\ calls = 0
    /\ tx_data = <<>>
    /\ tx_transaction_number = 0
    /\ tx_array = <<>>
    /\ tx_function_code = 0
    /\ rx_data_buffer = <<>>
    /\ rx_data_recv = <<>>
    /\ ser_rx_complete = FALSE
    /\ result = NoResult
    /\ io = <<>>
    /\ sent_bytes = <<>>
    /\ wire = <<>>
    /\ in_waiting = <<>>
    /\ crc_out = <<>>
    /\ op = NoOp
    /\ ret = NoRet
    /\ fault = ""
    /\ scan = NoScan

\* the device of Spec, SpecSeq, SpecConn and SpecDev before the first write
DeviceAtRest ==
    /\ dev_value = DevInit
    /\ decoded = NoDecoded

\* open() has not been called: the object has no attribute _socket
Constructed ==
    /\ socket = "unset"
    /\ lifecycle = "none"

\* open() has been called and has returned True
Opened ==
    /\ socket = "connected"
    /\ lifecycle = "open:True"

\* a client of either mode on which open() has returned True
Init ==
    /\ host_mode \in {ETHERNET, SERIAL}
    /\ pc = "idle"
    /\ crc_data = <<>>
    /\ InitClient
    /\ LayersAtRest
    /\ DeviceAtRest
    /\ Opened

\* an entry that takes the next transaction number only once the length of
\* the payload has been accepted
DataExchangeCallKeepsOnReject(limit, payloads) ==
    /\ pc = "idle"
    /\ calls < limit
    /\ \E d \in payloads :
        /\ tx_data' = d
        /\ IF host_mode = ETHERNET
           THEN /\ tx_transaction_number' = transaction_number
                /\ transaction_number' =
                       IF PayloadLenOk(d)
                       THEN NextTransactionNumber(transaction_number)
                       ELSE transaction_number
                /\ IF PayloadLenOk(d)
                   THEN /\ tx_array' = EthFrame(transaction_number, d)
                        /\ tx_function_code' =
                               TxFunctionCode(ETHERNET,
                                              EthFrame(transaction_number, d))
                        /\ result' = NoResult
                        /\ pc' = "send"
                   ELSE /\ tx_array' =
                               <<HiByte(transaction_number),
                                 LoByte(transaction_number), 0, 0>>
                        /\ tx_function_code' = 0
                        /\ result' = Raised("ValueError")
                        /\ pc' = "idle"
           ELSE /\ tx_array' = SerFrame(d)
                /\ tx_function_code' = TxFunctionCode(SERIAL, SerFrame(d))
                /\ result' = NoResult
                /\ pc' = "send"
                /\ UNCHANGED <<transaction_number, tx_transaction_number>>
    /\ calls' = calls + 1
    /\ rx_data_buffer' = <<>>
    /\ rx_data_recv' = <<>>
    /\ ser_rx_complete' = FALSE
    /\ io' = <<>>
    /\ sent_bytes' = <<>>
    /\ fault' = ""
    /\ UNCHANGED <<host_mode, wire, in_waiting, crc_data, crc_out, socket,
                   lifecycle, dev_value>>

\* entry of _data_exchange up to the first transport call: the locals are
\* initialised and the outbound frame is assembled
DataExchangeCall(limit, payloads) ==
    /\ pc = "idle"
    /\ calls < limit
    /\ \E d \in payloads :
        /\ tx_data' = d
        /\ IF host_mode = ETHERNET
           THEN /\ tx_transaction_number' = transaction_number
                /\ transaction_number' =
                       NextTransactionNumber(transaction_number)
                /\ IF PayloadLenOk(d)
                   THEN /\ tx_array' = EthFrame(transaction_number, d)
                        /\ tx_function_code' =
                               TxFunctionCode(ETHERNET,
                                              EthFrame(transaction_number, d))
                        /\ result' = NoResult
                        /\ pc' = "send"
                   ELSE /\ tx_array' =
                               <<HiByte(transaction_number),
                                 LoByte(transaction_number), 0, 0>>
                        /\ tx_function_code' = 0
                        /\ result' = Raised("ValueError")
                        /\ pc' = "idle"
           ELSE /\ tx_array' = SerFrame(d)
                /\ tx_function_code' = TxFunctionCode(SERIAL, SerFrame(d))
                /\ result' = NoResult
                /\ pc' = "send"
                /\ UNCHANGED <<transaction_number, tx_transaction_number>>
    /\ calls' = calls + 1
    /\ rx_data_buffer' = <<>>
    /\ rx_data_recv' = <<>>
    /\ ser_rx_complete' = FALSE
    /\ io' = <<>>
    /\ sent_bytes' = <<>>
    /\ fault' = ""
    /\ UNCHANGED <<host_mode, wire, in_waiting, crc_data, crc_out, socket,
                   lifecycle, dev_value>>

\* entry of an operation: its checks, the assembly of its request and its
\* call of _data_exchange
OperationCall(limit, ops) ==
    /\ pc = "idle"
    /\ \E o \in ops :
        /\ op' = o
        /\ IF OpCheck(o) = "call"
           THEN /\ DataExchangeCall(limit, {TxArrayOf(o)})
                /\ ret' = PublicReturn(o, result')
           ELSE /\ ret' = IF OpCheck(o) = "0x04" THEN Ret(4, 0, <<>>)
                          ELSE RetRaised(OpCheck(o))
                /\ UNCHANGED <<host_mode, transaction_number, pc, calls,
                               tx_data, tx_transaction_number, tx_array,
                               tx_function_code, rx_data_buffer, rx_data_recv,
                               ser_rx_complete, result, io, sent_bytes, wire,
                               in_waiting, crc_data, crc_out, socket,
                               lifecycle, fault, dev_value>>

\* the application calls a public operation; none is called while a scan
\* of the slots is running
PublicCall(limit, ops) ==
    /\ ~ScanRunning
    /\ OperationCall(limit, ops)
    /\ UNCHANGED <<scan, decoded>>
    /\ UNCHANGED <<leftover, restVars>>

\* a scan is called: its first read
ScanCall(limit, names) ==
    /\ ~ScanRunning
    /\ \E n \in names :
        /\ scan' = Scan(n, 1, "slot", NoRet, <<>>, <<>>)
        /\ OperationCall(limit, {SlotRead(n, ScanCounters(n)[1])})
    /\ UNCHANGED decoded
    /\ UNCHANGED <<leftover, restVars>>

\* a read of the scan has ended: the scan goes on to its next read, or ends.
\* An exception of the read leaves the scan.
ScanStep(limit) ==
    /\ pc = "idle"
    /\ ScanRunning
    /\ LET n == scan.name
           counter == ScanCounters(n)[scan.counter]
           log == Append(scan.log, LogEntry(op, ret))
           active == scan.stage = "slot" /\ SlotActive(n, ret)
           array ==
               IF scan.stage = "state"
               THEN Append(scan.array, <<Second(n, scan.slot), ret.value>>)
               ELSE IF active THEN Append(scan.array, Second(n, ret))
               ELSE scan.array
       IN  IF ret.kind = "raised"
           THEN /\ scan' = Scan(n, scan.counter, "raised", scan.slot,
                                scan.array, log)
                /\ UNCHANGED <<host_mode, transaction_number, pc, calls,
                               tx_data, tx_transaction_number, tx_array,
                               tx_function_code, rx_data_buffer, rx_data_recv,
                               ser_rx_complete, result, io, sent_bytes, wire,
                               in_waiting, crc_data, crc_out, socket,
                               lifecycle, op, ret, fault, dev_value>>
           ELSE IF active /\ ReadsState(n)
           THEN /\ scan' = Scan(n, scan.counter, "state", ret, scan.array,
                                log)
                /\ OperationCall(limit,
                                 {Op("read_integer",
                                     StateParameter(n, counter), 0, <<>>)})
           ELSE IF scan.counter < Len(ScanCounters(n))
           THEN /\ scan' = Scan(n, scan.counter + 1, "slot", NoRet, array,
                                log)
                /\ OperationCall(limit,
                                 {SlotRead(n,
                                           ScanCounters(n)[scan.counter + 1])})
           ELSE /\ scan' = Scan(n, scan.counter, "returned", NoRet, array,
                                log)
                /\ UNCHANGED <<host_mode, transaction_number, pc, calls,
                               tx_data, tx_transaction_number, tx_array,
                               tx_function_code, rx_data_buffer, rx_data_recv,
                               ser_rx_complete, result, io, sent_bytes, wire,
                               in_waiting, crc_data, crc_out, socket,
                               lifecycle, op, ret, fault, dev_value>>
    /\ UNCHANGED decoded
    /\ UNCHANGED <<leftover, restVars>>

\* self._socket.send(bytearray(tx_array)) / self._socket.write(tx_array);
\* a device that got the request acts on it, and a serial device puts its
\* answer on the line unless more than stale bytes of its earlier answers
\* are still unread
TransportSendUpTo(stale, exceptions, answers) ==
    /\ pc = "send"
    /\ io' = Append(io, "send")
    /\ sent_bytes' = tx_array
    /\ \E exc \in SendOutcomes(host_mode, socket, exceptions) :
         /\ fault' = exc
         /\ IF exc = ""
            THEN /\ pc' = "recv"
                 /\ UNCHANGED result
                 /\ \E a \in answers :
                      /\ dev_value' = a.dev
                      /\ a.reply = <<>>
                            \/ Len(wire) + Len(in_waiting) <= stale
                      /\ wire' = wire \o a.reply
            ELSE /\ pc' = "idle"
                 /\ result' = Returned(SendFailureCode(host_mode, exc),
                                       rx_data_buffer)
                 /\ UNCHANGED <<wire, dev_value>>
    /\ ret' = PublicReturn(op, result')
    /\ UNCHANGED <<host_mode, transaction_number, calls, tx_data,
                   tx_transaction_number, tx_array, tx_function_code,
                   rx_data_buffer, rx_data_recv, ser_rx_complete, in_waiting,
                   crc_data, crc_out, socket, lifecycle, op>>
    /\ UNCHANGED <<scan, decoded>>
    /\ leftover' = Len(wire) + Len(in_waiting)
    /\ UNCHANGED restVars

\* a send whose failure is kept for later: the receive is attempted all the
\* same
TransportSendThenReceive(exceptions, answers) ==
    /\ pc = "send"
    /\ io' = Append(io, "send")
    /\ sent_bytes' = tx_array
    /\ \E exc \in SendOutcomes(host_mode, socket, exceptions) :
         /\ fault' = exc
         /\ IF exc = ""
            THEN /\ pc' = "recv"
                 /\ UNCHANGED result
                 /\ \E a \in answers :
                      /\ dev_value' = a.dev
                      /\ a.reply = <<>>
                            \/ Len(wire) + Len(in_waiting) <= MaxStale
                      /\ wire' = wire \o a.reply
            ELSE /\ pc' = "recv"
                 /\ UNCHANGED <<result, wire, dev_value>>
    /\ ret' = PublicReturn(op, result')
    /\ UNCHANGED <<host_mode, transaction_number, calls, tx_data,
                   tx_transaction_number, tx_array, tx_function_code,
                   rx_data_buffer, rx_data_recv, ser_rx_complete, in_waiting,
                   crc_data, crc_out, socket, lifecycle, op>>
    /\ UNCHANGED <<scan, decoded>>
    /\ leftover' = Len(wire) + Len(in_waiting)
    /\ UNCHANGED restVars

\* the send of the specifications in which the device waits for its
\* earlier answers to be read
TransportSend(exceptions, answers) ==
    TransportSendUpTo(MaxStale, exceptions, answers)

\* ETHERNET: self._socket.recv(300), the copy into rx_data_recv, the removal
\* of the Modbus/TCP header and the classification, up to the return
EthernetReceive(exceptions, replies) ==
    /\ pc = "recv"
    /\ host_mode = ETHERNET
    /\ io' = Append(io, "recv")
    /\ pc' = "idle"
    /\ \/ \E exc \in exceptions :
            /\ fault' = exc
            /\ result' = Returned(EthRecvFailureCode(exc), rx_data_buffer)
            /\ UNCHANGED <<rx_data_buffer, rx_data_recv>>
       \/ \E r \in replies :
            /\ fault' = ""
            /\ rx_data_buffer' = r
            /\ rx_data_recv' = r
            /\ result' = Classify(ETHERNET, tx_array, tx_function_code, r)
    /\ ret' = PublicReturn(op, result')
    /\ UNCHANGED <<host_mode, transaction_number, calls, tx_data,
                   tx_transaction_number, tx_array, tx_function_code,
                   ser_rx_complete, sent_bytes, wire, in_waiting, crc_data,
                   crc_out, socket, lifecycle, op, dev_value>>
    /\ UNCHANGED <<scan, decoded>>
    /\ UNCHANGED <<leftover, restVars>>

\* the serial loop catches serial.SerialException only: another exception
\* leaves _data_exchange
SerRecvFailure(exc, buffer) ==
    IF exc = "SerialException" THEN Returned(ISOCKET_READ_ERROR, buffer)
    ELSE Raised(exc)

\* SERIAL: one pass of "while not ser_rx_complete": the port's input buffer
\* is emptied into rx_data_buffer, the checksum is tested, the time limit is
\* tested (late: more than serial_timeout ms have passed); when the loop
\* ends the CRC is removed and the reply is classified, up to the return
SerialReceivePass(exceptions, lates) ==
    /\ pc = "recv"
    /\ host_mode = SERIAL
    /\ io' = IF io # <<>> /\ io[Len(io)] = "recv" THEN io
             ELSE Append(io, "recv")
    /\ \/ \E exc \in exceptions, k \in {0, Len(in_waiting)} :
            \* the exception is raised before a byte was read, or after
            \* all that had arrived were read
            /\ fault' = exc
            /\ rx_data_buffer' = rx_data_buffer \o SubSeq(in_waiting, 1, k)
            /\ in_waiting' = SubSeq(in_waiting, k + 1, Len(in_waiting))
            /\ result' = SerRecvFailure(exc, rx_data_buffer')
            /\ pc' = "idle"
            /\ UNCHANGED <<rx_data_recv, ser_rx_complete>>
       \/ \E late \in lates :
            /\ fault' = IF late THEN "late" ELSE ""
            /\ rx_data_buffer' = rx_data_buffer \o in_waiting
            /\ in_waiting' = <<>>
            /\ ser_rx_complete' = SerialComplete(rx_data_buffer')
            /\ IF late
               THEN /\ result' = Returned(ISOCKET_READ_TIMEOUT,
                                          rx_data_buffer')
                    /\ pc' = "idle"
                    /\ UNCHANGED rx_data_recv
               ELSE IF ser_rx_complete'
               THEN /\ rx_data_recv' = rx_data_buffer'
                    /\ result' = Classify(SERIAL, tx_array, tx_function_code,
                                          rx_data_buffer')
                    /\ pc' = "idle"
               ELSE /\ pc' = "recv"
                    /\ UNCHANGED <<result, rx_data_recv>>
    /\ ret' = PublicReturn(op, result')
    /\ UNCHANGED <<host_mode, transaction_number, calls, tx_data,
                   tx_transaction_number, tx_array, tx_function_code,
                   sent_bytes, wire, crc_data, crc_out, socket, lifecycle, op,
                   dev_value>>
    /\ UNCHANGED <<scan, decoded>>
    /\ UNCHANGED <<leftover, restVars>>

\* the serial line: the next n bytes of the device reach the input buffer.
\* Nothing reads the port outside the receive loop, so bytes that arrive
\* while no call is receiving are taken to arrive as its receive loop starts.
SerialBytesArrive ==
    /\ host_mode = SERIAL
    /\ pc = "recv"
    /\ \E n \in 1..Len(wire) :
        /\ in_waiting' = in_waiting \o SubSeq(wire, 1, n)
        /\ wire' = SubSeq(wire, n + 1, Len(wire))
    /\ UNCHANGED <<host_mode, transaction_number, pc, calls, tx_data,
                   tx_transaction_number, tx_array, tx_function_code,
                   rx_data_buffer, rx_data_recv, ser_rx_complete, result, io,
                   sent_bytes, crc_data, crc_out, socket, lifecycle, op, ret,
                   fault, dev_value>>
    /\ UNCHANGED <<scan, decoded>>
    /\ UNCHANGED <<leftover, restVars>>

Next ==
    \/ PublicCall(MaxCalls, Ops(host_mode))
    \/ TransportSend(SendExceptions(host_mode),
                     AnyAnswers(host_mode, tx_array, dev_value))
    \/ EthernetReceive(RecvExceptions, EthReplies(tx_array))
    \/ SerialReceivePass({"SerialException"}, BOOLEAN)
    \/ SerialBytesArrive

Spec == Init /\ [][Next]_vars

(***************************************************************************)
(* SpecSeq: one ETHERNET client making call after call with an accepted    *)
(* request, each answered by its echo or by a receive timeout, until the   *)
(* transaction counter has wrapped.                                        *)
(***************************************************************************)
InitSeq ==
    /\ host_mode = ETHERNET
    /\ pc = "idle"
    /\ crc_data = <<>>
    /\ InitClient
    /\ LayersAtRest
    /\ DeviceAtRest
    /\ Opened

NextSeq ==
    \/ PublicCall(SeqCalls, {Op("read_integer", PNUM_POWER_SETPOINT, 0, <<>>)})
    \/ TransportSend({}, AnyAnswers(host_mode, tx_array, dev_value))
    \/ EthernetReceive({"socket.timeout"}, {tx_array})

SpecSeq == InitSeq /\ [][NextSeq]_vars

(***************************************************************************)
(* open, isopen, close.                                                    *)
(***************************************************************************)
\* the result of an operation that returns no exception code: a bool (as
\* 1 / 0) or None (as 0)
RetValue(value) ==
    [kind |-> "returned", code |-> -1, value |-> value, text |-> <<>>,
     exc |-> ""]

\* how open() can go, by what happens in its try block: "connected", or
\* "refused" (connect / Serial.open raises, timeout included); creating the
\* socket object itself is taken not to fail
OpenOutcomes(mode) == {"connected", "refused"}

\* self._socket after open(): a new object in both cases
SocketAfterOpen(sock, outcome) ==
    IF outcome = "connected" THEN "connected" ELSE "unconnected"

\* open()
OpenCall ==
    /\ pc = "idle"
    /\ op' = Op("open", 0, 0, <<>>)
    /\ \E outcome \in OpenOutcomes(host_mode) :
        /\ socket' = SocketAfterOpen(socket, outcome)
        /\ ret' = RetValue(IF outcome = "connected" THEN 1 ELSE 0)
        /\ lifecycle' = IF outcome = "connected" THEN "open:True"
                        ELSE "open:False"
    /\ UNCHANGED <<host_mode, transaction_number, pc, calls, tx_data,
                   tx_transaction_number, tx_array, tx_function_code,
                   rx_data_buffer, rx_data_recv, ser_rx_complete, result, io,
                   sent_bytes, wire, in_waiting, crc_data, crc_out, fault,
                   dev_value>>
    /\ UNCHANGED <<scan, decoded>>
    /\ UNCHANGED <<leftover, restVars>>

\* isopen(): ETHERNET "self._socket is not None", SERIAL "self._socket.is_open";
\* the AttributeError of an object without _socket is caught in both modes
isopen(mode, sock) ==
    IF mode = ETHERNET THEN sock # "unset" ELSE sock = "connected"

\* a call of isopen()
IsOpenCall ==
    /\ pc = "idle"
    /\ op' = Op("isopen", 0, 0, <<>>)
    /\ ret' = RetValue(IF isopen(host_mode, socket) THEN 1 ELSE 0)
    /\ UNCHANGED <<host_mode, transaction_number, pc, calls, tx_data,
                   tx_transaction_number, tx_array, tx_function_code,
                   rx_data_buffer, rx_data_recv, ser_rx_complete, result, io,
                   sent_bytes, wire, in_waiting, crc_data, crc_out, socket,
                   lifecycle, fault, dev_value>>
    /\ UNCHANGED <<scan, decoded>>
    /\ UNCHANGED <<leftover, restVars>>

\* close() raises: there is no _socket yet, or (ETHERNET) shutdown(2) is
\* called on a socket that is not connected
CloseRaises(mode, sock) ==
    IF sock = "unset" THEN "AttributeError"
    ELSE IF mode = ETHERNET /\ sock # "connected" THEN "OSError"
    ELSE ""

\* self._socket after close(): Serial.close() of a port that is not open
\* does nothing
SocketAfterClose(mode, sock) ==
    IF CloseRaises(mode, sock) # "" THEN sock
    ELSE IF sock = "connected" THEN "closed"
    ELSE sock

\* close(), the peer of a connected socket being still there
CloseCall ==
    /\ pc = "idle"
    /\ op' = Op("close", 0, 0, <<>>)
    /\ socket' = SocketAfterClose(host_mode, socket)
    /\ ret' = IF CloseRaises(host_mode, socket) # ""
              THEN RetRaised(CloseRaises(host_mode, socket))
              ELSE RetValue(0)
    /\ lifecycle' = "close"
    /\ UNCHANGED <<host_mode, transaction_number, pc, calls, tx_data,
                   tx_transaction_number, tx_array, tx_function_code,
                   rx_data_buffer, rx_data_recv, ser_rx_complete, result, io,
                   sent_bytes, wire, in_waiting, crc_data, crc_out, fault,
                   dev_value>>
    /\ UNCHANGED <<scan, decoded>>
    /\ UNCHANGED <<leftover, restVars>>

(***************************************************************************)
(* SpecConn: a client from its construction on, with open, isopen and      *)
(* close called between its read and write operations.                     *)
(***************************************************************************)
\* write_string of 248 characters "A": a request of 253 bytes
LongString == [i \in 1..248 |-> 65]

\* the text "999.1.1.1"
BadIpText == <<57, 57, 57, 46, 49, 46, 49, 46, 49>>

\* the text "169.254.1.1"
GoodIpText == <<49, 54, 57, 46, 50, 53, 52, 46, 49, 46, 49>>

\* the operations called on the client of SpecConn
ConnOps(mode) ==
    {Op("read_integer", PNUM_POWER_SETPOINT, 0, <<>>),
     Op("write_integer", PNUM_POWER_SETPOINT, 30000, <<>>),
     Op("write_ip_addr", PNUM_POWER_SETPOINT, 0, BadIpText),
     Op("write_ip_addr", PNUM_POWER_SETPOINT, 0, GoodIpText)}
    \cup (IF mode = ETHERNET
          THEN {Op("write_string", PNUM_POWER_SETPOINT, 0, LongString)}
          ELSE {Op("write_string", PNUM_POWER_SETPOINT, 0, <<65>>)})

InitConn ==
    /\ host_mode \in {ETHERNET, SERIAL}
    /\ pc = "idle"
    /\ crc_data = <<>>
    /\ InitClient
    /\ LayersAtRest
    /\ DeviceAtRest
    /\ Constructed

NextConn ==
    \/ OpenCall
    \/ IsOpenCall
    \/ CloseCall
    \/ PublicCall(MaxConnCalls, ConnOps(host_mode))
    \/ TransportSend(SendExceptions(host_mode),
                     DevAnswers(host_mode, tx_data, dev_value))
    \/ EthernetReceive(RecvExceptions,
                       DevEthReplies(tx_array, tx_data, dev_value))
    \/ SerialReceivePass(SerRecvExceptions, BOOLEAN)
    \/ SerialBytesArrive

SpecConn == InitConn /\ [][NextConn]_vars

(***************************************************************************)
(* SpecDev: an open client and a device that holds a value for each of     *)
(* its parameters, echoes every write and answers every read with the      *)
(* value last written; no transport call fails and no time limit passes.   *)
(* The serial answer reaches the port in pieces of any size.               *)
(***************************************************************************)
\* str.join: the parts with a dot between them
RECURSIVE Dotted(_)
Dotted(parts) ==
    IF Len(parts) = 0 THEN <<>>
    ELSE IF Len(parts) = 1 THEN parts[1]
    ELSE parts[1] \o <<46>> \o Dotted(Tail(parts))

\* texts handed to write_ip_addr: a first part of every kind (numbers in
\* and out of range, "-1", "x", "", "01", " 7"), a last part out of range
\* and one that is no number, too few and too many parts, the empty text
IpFirstParts ==
    {DecStr(n) : n \in {0, 17, 32, 169, 255, 256, 999}}
    \cup {<<45, 49>>, <<120>>, <<>>, <<48, 49>>, <<32, 55>>}

IpTexts ==
    {Dotted(<<a, DecStr(IF a = DecStr(17) THEN 145
                        ELSE IF a = DecStr(32) THEN 186 ELSE 254),
              DecStr(1), DecStr(1)>>) : a \in IpFirstParts}
    \cup {Dotted(<<DecStr(0), DecStr(0), DecStr(0), d>>) :
              d \in {DecStr(255), DecStr(256), <<120>>}}
    \cup {Dotted(<<DecStr(1), DecStr(2), DecStr(3)>>),
          Dotted(<<DecStr(1), DecStr(2), DecStr(3), DecStr(4), DecStr(5)>>),
          <<>>}

\* values handed to write_integer: 0x20BA0000 and 0x11910001 among them
IntValues ==
    {0, -1, 30000, 2147483647, (0 - 2147483647) - 1, 549060608, 294715393}

\* the operations called on the client of SpecDev
DevOps ==
    {Op("write_integer", PNUM_POWER_SETPOINT, v, <<>>) : v \in IntValues}
    \cup {Op("write_ip_addr", PNUM_POWER_SETPOINT, 0, t) : t \in IpTexts}
    \cup {Op("read_integer", PNUM_POWER_SETPOINT, 0, <<>>),
          Op("read_ip_addr", PNUM_POWER_SETPOINT, 0, <<>>)}

InitDev ==
    /\ host_mode \in {ETHERNET, SERIAL}
    /\ pc = "idle"
    /\ crc_data = <<>>
    /\ InitClient
    /\ LayersAtRest
    /\ DeviceAtRest
    /\ Opened

NextDev ==
    \/ PublicCall(MaxDevCalls, DevOps)
    \/ TransportSend({}, DevAnswers(host_mode, tx_data, dev_value))
    \/ EthernetReceive({}, DevEthReplies(tx_array, tx_data, dev_value))
    \/ SerialReceivePass({}, {FALSE})
    \/ SerialBytesArrive

SpecDev == InitDev /\ [][NextDev]_vars

(***************************************************************************)
(* The serial line when the whole answer of the device reaches the port    *)
(* before the receive loop polls it.                                       *)
(***************************************************************************)
SerialReplyArrives ==
    /\ host_mode = SERIAL
    /\ pc = "recv"
    /\ wire # <<>>
    /\ in_waiting' = in_waiting \o wire
    /\ wire' = <<>>
    /\ UNCHANGED <<host_mode, transaction_number, pc, calls, tx_data,
                   tx_transaction_number, tx_array, tx_function_code,
                   rx_data_buffer, rx_data_recv, ser_rx_complete, result, io,
                   sent_bytes, crc_data, crc_out, socket, lifecycle, op, ret,
                   fault, dev_value, scan, decoded>>
    /\ UNCHANGED <<leftover, restVars>>

(***************************************************************************)
(* SpecApp: an open client whose high level functions are called, and a    *)
(* device that echoes a write or refuses it, and answers a read with any   *)
(* of a few readings or refuses it.  No transport call fails.              *)
(***************************************************************************)
\* readings of the device: the states 0..6, values that are no state,
\* values around the multiples of 1000, the ends of the 32-bit range
RawValues ==
    {0, 1, 2, 3, 4, 5, 6, 7, 99, -1, -1500, -1000, -999, 999, 1000, 1999,
     30000, 2147483647, (0 - 2147483647) - 1}

\* SHFT messages of the device of SpecApp for a request
AppMessages(request) ==
    IF request[2] = FC_WRITE
    THEN {request, <<10, FC_WRITE + 128, 4>>}
    ELSE {<<10, FC_READ, 4>> \o PackI32(v) : v \in RawValues}
             \cup {<<10, FC_READ + 128, 4>>}

AppAnswers(mode, request, dev) ==
    IF mode = SERIAL
    THEN {Answer(SerFrame(m), dev) : m \in AppMessages(request)}
    ELSE {Answer(<<>>, dev)}

AppEthReplies(sent, request) ==
    {EthFrame((sent[1] * 256) + sent[2], m) : m \in AppMessages(request)}

\* arguments of set_power_setpoint_watts: int values up to and beyond the
\* largest whose thousandfold packs, True, the float 30.0, the str "30", None
SetpointArguments ==
    {OpOf("set_power_setpoint_watts", "int", v, <<>>) :
        v \in {0, 30, -1, 2147483, 0 - 2147483, 2147484, 0 - 2147484}}
    \cup {OpOf("set_power_setpoint_watts", "bool", 1, <<>>),
          OpOf("set_power_setpoint_watts", "float", 30, <<>>),
          OpOf("set_power_setpoint_watts", "str", 0, <<51, 48>>),
          OpOf("set_power_setpoint_watts", "NoneType", 0, <<>>)}

\* the operations called on the client of SpecApp
AppOps ==
    SetpointArguments
    \cup {OpOf(n, "NoneType", 0, <<>>) :
             n \in DividingGetters
                    \cup {"get_rf_status_int", "get_rf_status_string",
                          "reset_errors"}}
    \cup {OpOf(n, "bool", b, <<>>) : n \in {"set_rf_on", "set_rf_off"},
                                     b \in {0, 1}}

InitApp ==
    /\ host_mode \in {ETHERNET, SERIAL}
    /\ pc = "idle"
    /\ crc_data = <<>>
    /\ InitClient
    /\ LayersAtRest
    /\ DeviceAtRest
    /\ Opened

NextApp ==
    \/ PublicCall(MaxAppCalls, AppOps)
    \/ TransportSend({}, AppAnswers(host_mode, tx_data, dev_value))
    \/ EthernetReceive({}, AppEthReplies(tx_array, tx_data))
    \/ SerialReceivePass({}, {FALSE})
    \/ SerialReplyArrives

SpecApp == InitApp /\ [][NextApp]_vars

(***************************************************************************)
(* SpecRound: set_power_setpoint_watts and get_power_setpoint_watts on an  *)
(* open client, against the device of SpecDev; the serial answer reaches   *)
(* the port in pieces of any size.                                         *)
(***************************************************************************)
\* watts handed to set_power_setpoint_watts: 549061000 is 0x20BA0188 and
\* 294716000 is 0x11910260
RoundWatts == {0, 30, -1, 2147483, 0 - 2147483, 549061, 294716}

RoundOps ==
    {OpOf("set_power_setpoint_watts", "int", w, <<>>) : w \in RoundWatts}
    \cup {OpOf("get_power_setpoint_watts", "NoneType", 0, <<>>)}

InitRound ==
    /\ host_mode \in {ETHERNET, SERIAL}
    /\ pc = "idle"
    /\ crc_data = <<>>
    /\ InitClient
    /\ LayersAtRest
    /\ DeviceAtRest
    /\ Opened

NextRound ==
    \/ PublicCall(MaxRoundCalls, RoundOps)
    \/ TransportSend({}, DevAnswers(host_mode, tx_data, dev_value))
    \/ EthernetReceive({}, DevEthReplies(tx_array, tx_data, dev_value))
    \/ SerialReceivePass({}, {FALSE})
    \/ SerialBytesArrive

SpecRound == InitRound /\ [][NextRound]_vars

(***************************************************************************)
(* SpecReq: every read and write operation called with parameter numbers   *)
(* over the 16-bit range, against the device of SpecDev.                   *)
(***************************************************************************)
\* 66742 is 0x10000 + 1206
ReqParameters == {0, 255, 256, PNUM_POWER_SETPOINT, 65535, 66742, -1}

\* the str values written: "", "A", "RF on", and "A" NUL "B"
ReqTexts == {<<>>, <<65>>, <<82, 70, 32, 111, 110>>, <<65, 0, 66>>}

\* the encodings of the floats written: 0.0, 1.0, -2.5
ReqFloats == {<<0, 0, 0, 0>>, <<63, 128, 0, 0>>, <<192, 32, 0, 0>>}

ReqOps ==
    {Op(n, p, 0, <<>>) :
        n \in {"read_integer", "read_float", "read_string", "read_ip_addr"},
        p \in ReqParameters}
    \cup {Op("write_integer", p, v, <<>>) :
             p \in ReqParameters, v \in {0, -1, 30000}}
    \cup {Op("write_float", p, 0, f) : p \in ReqParameters, f \in ReqFloats}
    \cup {Op("write_string", p, 0, t) : p \in ReqParameters, t \in ReqTexts}
    \cup {Op("write_ip_addr", p, 0, t) :
             p \in ReqParameters, t \in {GoodIpText, BadIpText}}

InitReq ==
    /\ host_mode \in {ETHERNET, SERIAL}
    /\ pc = "idle"
    /\ crc_data = <<>>
    /\ InitClient
    /\ LayersAtRest
    /\ DeviceAtRest
    /\ Opened

NextReq ==
    \/ PublicCall(MaxReqCalls, ReqOps)
    \/ TransportSend({}, DevAnswers(host_mode, tx_data, dev_value))
    \/ EthernetReceive({}, DevEthReplies(tx_array, tx_data, dev_value))
    \/ SerialReceivePass({}, {FALSE})
    \/ SerialReplyArrives

SpecReq == InitReq /\ [][NextReq]_vars

(***************************************************************************)
(* SpecScan: the four scans on an open client, against a device that holds *)
(* one answer for each parameter 8101..8182.                               *)
(***************************************************************************)
ScanParameters == 8101..8182

\* what the slots of a device hold, by the number k = 0, 1, ... of the slot
\* in its range: 1 none is active, 2 all are, 3 they are active, empty,
\* refused and negative in turn, 4 the last two (and the 17th) are active and
\* the others refused, 5 all are answered with a reply cut short
SlotKind(pattern, k) ==
    IF pattern = 1 THEN "empty"
    ELSE IF pattern = 2 THEN "active"
    ELSE IF pattern = 3
    THEN <<"active", "empty", "refused", "negative">>[(k % 4) + 1]
    ELSE IF pattern = 4 THEN (IF k >= 14 THEN "active" ELSE "refused")
    ELSE "short"

\* the answer to the read of a text slot: "E" and a digit, "", an
\* exception reply, or a count of 2 followed by one character
TextMessage(kind, k) ==
    IF kind = "active" THEN <<10, FC_READ, 2, 69, 48 + (k % 10)>>
    ELSE IF kind = "refused" THEN <<10, FC_READ + 128, 4>>
    ELSE IF kind = "short" THEN <<10, FC_READ, 2, 69>>
    ELSE <<10, FC_READ, 0>>

\* the answer to the read of a number slot: k + 1, 0, -1, an exception
\* reply, or three value bytes
NumberMessage(kind, k) ==
    IF kind = "active" THEN <<10, FC_READ, 4>> \o PackI32(k + 1)
    ELSE IF kind = "refused" THEN <<10, FC_READ + 128, 4>>
    ELSE IF kind = "short" THEN <<10, FC_READ, 4, 0, 0, 1>>
    ELSE IF kind = "negative" THEN <<10, FC_READ, 4>> \o PackI32(-1)
    ELSE <<10, FC_READ, 4>> \o PackI32(0)

\* the answer of the device to a read of parameter p: error texts at
\* 8101, 8103, ..., 8131 and the state 100 + k of each at the next
\* parameter, error numbers from 8133 on, warning texts from 8151 on,
\* warning numbers from 8167 on
SlotMessage(pattern, p) ==
    IF p < 8133
    THEN IF p % 2 = 1
         THEN TextMessage(SlotKind(pattern, (p - 8101) \div 2),
                          (p - 8101) \div 2)
         ELSE <<10, FC_READ, 4>> \o PackI32(100 + ((p - 8102) \div 2))
    ELSE IF p < 8151
    THEN NumberMessage(SlotKind(pattern, p - 8133), p - 8133)
    ELSE IF p < 8167
    THEN TextMessage(SlotKind(pattern, p - 8151), p - 8151)
    ELSE NumberMessage(SlotKind(pattern, p - 8167), p - 8167)

ScanDevices ==
    {[p \in ScanParameters |-> SlotMessage(pattern, p)] : pattern \in 1..5}

\* the message the device holds for the parameter of a read request
HeldMessage(dev, request) ==
    IF ((request[3] * 256) + request[4]) \in DOMAIN dev
    THEN dev[(request[3] * 256) + request[4]]
    ELSE <<10, (request[2] + 128) % 256, 2>>

ScanAnswers(mode, request, dev) ==
    IF mode = SERIAL THEN {Answer(SerFrame(HeldMessage(dev, request)), dev)}
    ELSE {Answer(<<>>, dev)}

ScanEthReplies(sent, request, dev) ==
    {EthFrame((sent[1] * 256) + sent[2], HeldMessage(dev, request))}

InitScan ==
    /\ host_mode \in {ETHERNET, SERIAL}
    /\ pc = "idle"
    /\ crc_data = <<>>
    /\ InitClient
    /\ LayersAtRest
    /\ dev_value \in ScanDevices
    /\ decoded = NoDecoded
    /\ Opened

NextScan ==
    \/ ScanCall(MaxScanCalls, ScanNames)
    \/ ScanStep(MaxScanCalls)
    \/ TransportSend({}, ScanAnswers(host_mode, tx_data, dev_value))
    \/ EthernetReceive({}, ScanEthReplies(tx_array, tx_data, dev_value))
    \/ SerialReceivePass({}, {FALSE})
    \/ SerialReplyArrives

SpecScan == InitScan /\ [][NextScan]_vars

(***************************************************************************)
(* SpecDecode: decode_cito_exception_code applied to one code: any code of *)
(* 0x00..0xFF, or the code that a read_integer of an open client returned; *)
(* the behaviour ends there.                                               *)
(***************************************************************************)
DecodeInputs == 0..255

\* a call of decode_cito_exception_code(exception_code)
DecodeCall ==
    /\ \/ /\ pc = "decode"
          /\ decoded' = Decoded(decoded.code,
                                decode_cito_exception_code(decoded.code))
       \/ /\ pc = "idle"
          /\ ret.kind = "returned"
          /\ decoded' = Decoded(ret.code, decode_cito_exception_code(ret.code))
    /\ pc' = "decode_done"
    /\ UNCHANGED <<host_mode, transaction_number, calls, tx_data,
                   tx_transaction_number, tx_array, tx_function_code,
                   rx_data_buffer, rx_data_recv, ser_rx_complete, result, io,
                   sent_bytes, wire, in_waiting, crc_data, crc_out, socket,
                   lifecycle, op, ret, fault, dev_value, scan>>
    /\ UNCHANGED <<leftover, restVars>>

InitDecode ==
    /\ host_mode \in {ETHERNET, SERIAL}
    /\ crc_data = <<>>
    /\ InitClient
    /\ LayersAtRest
    /\ dev_value = DevInit
    /\ Opened
    /\ \/ pc = "idle" /\ decoded = NoDecoded
       \/ pc = "decode" /\ \E c \in DecodeInputs : decoded = Decoded(c, "")

NextDecode ==
    \/ PublicCall(MaxDecodeCalls,
                  {Op("read_integer", PNUM_POWER_SETPOINT, 0, <<>>)})
    \/ TransportSend(SendExceptions(host_mode),
                     AnyAnswers(host_mode, tx_array, dev_value))
    \/ EthernetReceive(RecvExceptions, EthReplies(tx_array))
    \/ SerialReceivePass({"SerialException"}, BOOLEAN)
    \/ SerialReplyArrives
    \/ DecodeCall

SpecDecode == InitDecode /\ [][NextDecode]_vars

(***************************************************************************)
(* SpecCrc: _calc_crc16 alone, applied to one input.  The inputs are every *)
(* first byte followed by up to MaxCrcLen - 1 bytes of CrcBytes, and the   *)
(* check string "123456789" with its prefixes.                             *)
(***************************************************************************)
CrcBytes == {0, 1, 65, 128, 255}

CheckString == <<49, 50, 51, 52, 53, 54, 55, 56, 57>>

CrcInputs ==
    {<<>>}
    \cup {<<b>> \o t : b \in 0..255,
                       t \in UNION {[1..n -> CrcBytes] : n \in 0..(MaxCrcLen - 1)}}
    \cup {SubSeq(CheckString, 1, n) : n \in 1..Len(CheckString)}

InitCrc ==
    /\ host_mode = SERIAL
    /\ pc = "crc"
    /\ crc_data \in CrcInputs
    /\ InitClient
    /\ LayersAtRest
    /\ DeviceAtRest
    /\ Constructed

\* a call of _calc_crc16(crc_data)
CalcCrc16Call ==
    /\ pc = "crc"
    /\ crc_out' = [crc |-> Crc16Value(crc_data), bytes |-> calc_crc16(crc_data)]
    /\ pc' = "crc_done"
    /\ UNCHANGED <<host_mode, transaction_number, calls, tx_data,
                   tx_transaction_number, tx_array, tx_function_code,
                   rx_data_buffer, rx_data_recv, ser_rx_complete, result, io,
                   sent_bytes, wire, in_waiting, crc_data, socket, lifecycle,
                   op, ret, fault, dev_value>>
    /\ UNCHANGED <<scan, decoded>>
    /\ UNCHANGED <<leftover, restVars>>

NextCrc == CalcCrc16Call

SpecCrc == InitCrc /\ [][NextCrc]_vars

(***************************************************************************)
(* Vocabulary of the properties.                                           *)
(***************************************************************************)
\* the running / last call handed a frame to the transport
FrameSent == io # <<>>

\* the last call has ended (returned or raised)
CallEnded == pc = "idle" /\ calls > 0

\* the 16-bit number in the first two bytes of a frame
FrameId(frame) == (frame[1] * 256) + frame[2]

\* the reflected CRC-16 of polynomial 0xA001 (40961), one bit at a time
RECURSIVE RefCrcBits(_, _)
RefCrcBits(crc, k) ==
    IF k = 0 THEN crc
    ELSE RefCrcBits(IF crc % 2 = 1 THEN BitXor(crc \div 2, 40961)
                    ELSE crc \div 2, k - 1)

RECURSIVE RefCrcFrom(_, _, _)
\* the register after the bytes from the i-th on have been shifted in (the
\* test crc >= 0 is always true: it has the register evaluated at each byte)
RefCrcFrom(data, i, crc) ==
    IF crc >= 0 /\ i <= Len(data)
    THEN RefCrcFrom(data, i + 1, RefCrcBits(BitXor(crc, data[i]), 8))
    ELSE crc

\* initial value 0
RefCrc16(data) == RefCrcFrom(data, 1, 0)

\* low byte first, high byte second
RefCrcBytes(data) == <<RefCrc16(data) % 256, (RefCrc16(data) \div 256) % 256>>

\* CRC16(data) & 0xFF, then (CRC16(data) >> 8) & 0xFF, CRC16 being the value
\* _calc_crc16 computes (C8 relates it to the polynomial)
Crc16LowHigh(data) ==
    <<Crc16Value(data) % 256, (Crc16Value(data) \div 256) % 256>>

\* the serial receive loop has run its checksum test on rx_data_buffer
ChecksumTested ==
    /\ host_mode = SERIAL
    /\ Len(io) = 2
    /\ fault \notin SerRecvExceptions

\* rx_data_buffer is the stream-mode encoding of some payload
BufferIsEncoding ==
    /\ Len(rx_data_buffer) >= 2
    /\ Last2(rx_data_buffer) = Crc16LowHigh(DropLast2(rx_data_buffer))

(***************************************************************************)
(* C1. In packet mode the k-th call of _data_exchange (k = 0, 1, ...)      *)
(* sends transaction id k mod 0x10000 in the first two frame bytes, high   *)
(* byte first: the ids run 0x0000..0xFFFF without gap or repeat, and the   *)
(* call after 0xFFFF uses 0x0000 again.  (SpecSeq)                         *)
(***************************************************************************)
C1_TransactionIdSequence ==
    (host_mode = ETHERNET /\ FrameSent) =>
        /\ FrameId(sent_bytes) = (calls - 1) % 65536
        /\ sent_bytes[1] = ((calls - 1) % 65536) \div 256
        /\ sent_bytes[2] = (calls - 1) % 256

\* the call after 0x10000 sends has sent id 0x0000 again
C1_Witness ==
    /\ host_mode = ETHERNET
    /\ calls = 65537
    /\ FrameSent
    /\ FrameId(sent_bytes) = 0

C3_PacketFrameLayout ==
    (host_mode = ETHERNET /\ FrameSent) =>
        /\ Len(sent_bytes) = Len(tx_data) + 6
        /\ FrameId(sent_bytes) = tx_transaction_number
        /\ tx_transaction_number = (calls - 1) % 65536
        /\ sent_bytes[1] \in 0..255 /\ sent_bytes[2] \in 0..255
        /\ sent_bytes[3] = 0 /\ sent_bytes[4] = 0
        /\ sent_bytes[5] \in 0..255 /\ sent_bytes[6] \in 0..255
        /\ (sent_bytes[5] * 256) + sent_bytes[6] = Len(tx_data)
        /\ SubSeq(sent_bytes, 7, Len(sent_bytes)) = tx_data

\* the second call has sent the longest accepted payload
C3_Witness ==
    /\ host_mode = ETHERNET
    /\ FrameSent
    /\ calls = 2
    /\ Len(tx_data) = 252
    /\ sent_bytes[2] = 1
    /\ sent_bytes[6] = 252

(***************************************************************************)
(* C4. In packet mode a received byte sequence r is accepted if and only   *)
(* if len(r) >= 9 and len(r) = r[4] * 256 + r[5] + 6; the payload of an    *)
(* accepted r is r[6:], and a sequence that is not accepted is never       *)
(* classified as a reply (the call ends in IndexError).                    *)
(***************************************************************************)
C4_PacketAcceptance ==
    (host_mode = ETHERNET /\ CallEnded /\ Len(io) = 2) =>
        LET r == rx_data_recv
            ok == Len(r) >= 9 /\ Len(r) = (r[5] * 256) + r[6] + 6
        IN  /\ result.classified <=> ok
            /\ result.classified =>
                  /\ result.outcome = "returned"
                  /\ result.data = SubSeq(r, 7, Len(r))
            /\ (~ok /\ result.outcome = "returned") =>
                  result.code \in {ISOCKET_READ_TIMEOUT, ISOCKET_READ_ERROR}
            /\ result.outcome = "raised" => (~ok /\ result.exc = "IndexError")

\* an 8-byte reply whose length field fits was received and not accepted
C4_Witness ==
    /\ host_mode = ETHERNET
    /\ CallEnded
    /\ Len(rx_data_recv) = 8
    /\ Len(rx_data_recv) = (rx_data_recv[5] * 256) + rx_data_recv[6] + 6
    /\ result.outcome = "raised"

C8_CrcMatchesReference ==
    pc = "crc_done" =>
        /\ crc_out.crc = RefCrc16(crc_data)
        /\ crc_out.crc \in 0..65535
        /\ crc_out.bytes = RefCrcBytes(crc_data)
        /\ crc_data = CheckString => crc_out.crc = 47933

\* the check string has been summed to 0xBB3D
C8_Witness ==
    /\ pc = "crc_done"
    /\ crc_data = CheckString
    /\ crc_out.crc = 47933
    /\ crc_out.bytes = <<61, 187>>

(***************************************************************************)
(* C9 as stated. For a write request the call returns exception code 0     *)
(* only if the received frame is identical to the sent frame; a reply of   *)
(* function code 0x42 that differs from the sent frame yields 0xC6.        *)
(***************************************************************************)
C9_WriteSuccessOnlyOnEcho ==
    (CallEnded /\ Len(tx_data) >= 2 /\ tx_data[2] = FC_WRITE
       /\ result.outcome = "returned") =>
        /\ result.code = 0 => rx_data_recv = sent_bytes
        /\ (result.classified /\ result.data[2] = FC_WRITE
              /\ rx_data_recv # sent_bytes) =>
              result.code = ISOCKET_INVALID_REPLY

(***************************************************************************)
(* C10. For a read request an accepted reply of function code 0x41 is      *)
(* classified as success (exception code 0) whatever its parameter echo    *)
(* and payload bytes are.                                                  *)
(***************************************************************************)
C10_ReadReplyIsSuccess ==
    (CallEnded /\ Len(tx_data) >= 2 /\ tx_data[2] = FC_READ
       /\ result.classified /\ result.data[2] = FC_READ) =>
        /\ result.outcome = "returned"
        /\ result.code = 0

\* a read request was answered by a frame of code 0x41 that is neither the
\* echo nor of the length of a value reply, and the call returned 0
C10_Witness ==
    /\ CallEnded
    /\ tx_data = ReadRequest(PNUM_POWER_SETPOINT)
    /\ result.classified
    /\ result.data[2] = FC_READ
    /\ Len(result.data) = 6
    /\ rx_data_recv # sent_bytes
    /\ result.code = 0

(***************************************************************************)
(* Vocabulary of the properties on the public operations.                  *)
(***************************************************************************)
\* the function code of the request handed to the transport: frame byte 7
\* in packet mode, byte 1 in stream mode
SentFunctionCode ==
    IF host_mode = ETHERNET THEN sent_bytes[8] ELSE sent_bytes[2]

\* the public read and write operations
ReadWriteNames ==
    {"read_integer", "read_string", "read_ip_addr", "write_integer",
     "write_string", "write_ip_addr"}

\* a public read or write operation has ended
ReadWriteEnded == pc = "idle" /\ op.name \in ReadWriteNames

\* the connection is Closed: never opened, open failed, or closed
Closed == lifecycle # "open:True"

\* the arguments of the operation pass its own checks and the length check
\* of the packet encoder
ArgumentsAccepted ==
    /\ OpCheck(op) = "call"
    /\ host_mode = ETHERNET =>
           (Len(TxArrayOf(op)) >= 5 /\ Len(TxArrayOf(op)) <= 252)

\* positions of the dots of a text
DotsOf(text) == {i \in 1..Len(text) : text[i] = 46}

\* the part of a text between position i and position j, both excluded
Between(text, i, j) == SubSeq(text, i + 1, j - 1)

\* the ways to read part as blanks, then a "+", a "-" or a zero followed
\* by zeros (or nothing), then from z to j a number of one to three digits
\* without a zero in front, then blanks
ReadingsOf(part) ==
    {c \in (1..Len(part)) \X (1..Len(part)) \X (1..Len(part)) :
        /\ c[1] <= c[2] /\ c[2] <= c[3] /\ c[3] - c[2] <= 2
        /\ \A k \in 1..Len(part) : (k < c[1] \/ k > c[3]) => part[k] = 32
        /\ \A k \in c[2]..c[3] : part[k] \in 48..57
        /\ c[2] = c[3] \/ part[c[2]] # 48
        /\ c[1] = c[2] \/ part[c[1]] \in {43, 45, 48}
        /\ \A k \in (c[1] + 1)..(c[2] - 1) : part[k] = 48}

\* the number of one to three digits at positions z..j
DigitsValue(part, z, j) ==
    IF j = z THEN part[z] - 48
    ELSE IF j = z + 1 THEN ((part[z] - 48) * 10) + (part[j] - 48)
    ELSE ((part[z] - 48) * 100) + ((part[z + 1] - 48) * 10) + (part[j] - 48)

\* the octet 0..255 that part writes, -1 if it writes none ("-" is a sign
\* of zero only)
OctetOf(part) ==
    IF ReadingsOf(part) = {} THEN -1
    ELSE LET c == CHOOSE r \in ReadingsOf(part) : TRUE
             n == DigitsValue(part, c[2], c[3])
         IN  IF n <= 255 /\ (part[c[1]] = 45 => n = 0) THEN n ELSE -1

\* the four octets a text writes, <<>> if it is not four dot-separated
\* integers of 0..255
OctetsOf(text) ==
    IF Cardinality(DotsOf(text)) # 3 THEN <<>>
    ELSE LET d == DotsOf(text)
             d1 == CHOOSE i \in d : \A j \in d : i <= j
             d3 == CHOOSE i \in d : \A j \in d : i >= j
             d2 == CHOOSE i \in d : i # d1 /\ i # d3
             octets == <<OctetOf(Between(text, 0, d1)),
                         OctetOf(Between(text, d1, d2)),
                         OctetOf(Between(text, d2, d3)),
                         OctetOf(Between(text, d3, Len(text) + 1))>>
         IN  IF \A k \in 1..4 : octets[k] >= 0 THEN octets ELSE <<>>

(***************************************************************************)
(* C11. An accepted reply whose function code is that of the request just  *)
(* sent plus 0x80 is classified as a device exception: the call returns    *)
(* the payload byte at offset 2 as exception code.  The request's function *)
(* code is frame byte 7 in packet mode and byte 1 in stream mode.          *)
(***************************************************************************)
C11_ExceptionReply ==
    (result.classified /\ result.data[2] = SentFunctionCode + 128) =>
        /\ result.outcome = "returned"
        /\ Len(result.data) >= 3
        /\ result.code = result.data[3]

\* packet mode: a read request was answered by an exception reply of code 4
C11_Witness ==
    /\ host_mode = ETHERNET
    /\ result.classified
    /\ sent_bytes[8] = FC_READ
    /\ result.data[2] = FC_READ + 128
    /\ result.data[3] = 4
    /\ result.code = 4

(***************************************************************************)
(* C12. An accepted reply whose function code is none of 0x41, 0x42 and    *)
(* the request's function code plus 0x80 yields exception code 0xFF.       *)
(***************************************************************************)
C12_CatchAll ==
    (result.classified
       /\ result.data[2] \notin {FC_READ, FC_WRITE, SentFunctionCode + 128}) =>
        /\ result.outcome = "returned"
        /\ result.code = CATCHALL_CODE

\* a reply of function code 0x55 was answered with 0xFF
C12_Witness ==
    /\ result.classified
    /\ result.data[2] = 85
    /\ result.code = CATCHALL_CODE

C14_IsOpenFollowsLifecycle ==
    (pc = "idle" /\ op.name = "isopen") =>
        (ret.value = 1 <=> lifecycle = "open:True")

(***************************************************************************)
(* C15 as stated. In each mode a transport failure is returned, never      *)
(* raised, with its own code: send timeout 0xC4, other send failure 0xC3,  *)
(* receive timeout 0xC5, other receive failure 0xC2.                       *)
(***************************************************************************)
C15_TransportFailureCodes ==
    (pc = "idle" /\ calls > 0 /\ fault # "") =>
        /\ result.outcome = "returned"
        /\ result.code =
              IF Len(io) = 1
              THEN IF fault \in {"socket.timeout", "SerialTimeoutException"}
                   THEN ISOCKET_WRITE_TIMEOUT ELSE ISOCKET_WRITE_ERROR
              ELSE IF fault \in {"socket.timeout", "late"}
                   THEN ISOCKET_READ_TIMEOUT ELSE ISOCKET_READ_ERROR

(***************************************************************************)
(* C16 as stated. Whatever bytes the transport delivers as a reply, every  *)
(* public read / write operation returns an exception code and never       *)
(* raises.                                                                 *)
(***************************************************************************)
C16_ReplyNeverRaises ==
    (ReadWriteEnded /\ Len(io) = 2 /\ fault = "") => ret.kind = "returned"

(***************************************************************************)
(* C17 as stated. Whenever read_integer returns exception code 0 the reply *)
(* has 7 payload bytes and the value returned is the big-endian signed     *)
(* 32-bit number in the four bytes at offset 3.                            *)
(***************************************************************************)
C17_ReadIntegerValue ==
    (pc = "idle" /\ op.name = "read_integer" /\ ret.kind = "returned"
       /\ ret.code = 0) =>
        /\ Len(result.data) = 7
        /\ PackI32(ret.value) = SubSeq(result.data, 4, 7)

(***************************************************************************)
(* C18. write_ip_addr with a text that is not four dot-separated integers  *)
(* of 0..255 returns 0x04 with no transport call and the transaction       *)
(* counter unchanged; a valid text a.b.c.d is sent as the four bytes       *)
(* a, b, c, d of the big-endian number a*2^24 + b*2^16 + c*2^8 + d.        *)
(* (SpecDev)                                                               *)
(***************************************************************************)
C18_WriteIpAddrStep ==
    (pc = "idle" /\ op'.name = "write_ip_addr") =>
        IF OctetsOf(op'.text) = <<>>
        THEN /\ ret'.kind = "returned"
             /\ ret'.code = 4
             /\ pc' = "idle"
             /\ UNCHANGED <<transaction_number, calls, io, sent_bytes, wire,
                            in_waiting, result, dev_value>>
        ELSE /\ pc' = "send"
             /\ tx_data' = <<10, FC_WRITE, HiByte(op'.parameter),
                             LoByte(op'.parameter)>> \o OctetsOf(op'.text)

C19_IpRoundTrip ==
    /\ (pc = "idle" /\ op.name = "write_ip_addr"
          /\ OctetsOf(op.text) # <<>>) =>
           /\ ret.kind = "returned"
           /\ ret.code = 0
    /\ (pc = "idle" /\ op.name = "read_ip_addr") =>
           /\ ret.kind = "returned"
           /\ ret.code = 0
           /\ OctetsOf(ret.text) = dev_value[op.parameter]

(***************************************************************************)
(* C20 as stated. Integer round trip against the same device, in both      *)
(* modes: write_integer returns 0, and read_integer returns 0 with the     *)
(* value the device holds.  (SpecDev)                                      *)
(***************************************************************************)
C20_IntegerRoundTrip ==
    /\ (pc = "idle" /\ op.name = "write_integer") =>
           /\ ret.kind = "returned"
           /\ ret.code = 0
    /\ (pc = "idle" /\ op.name = "read_integer") =>
           /\ ret.kind = "returned"
           /\ ret.code = 0
           /\ PackI32(ret.value) = dev_value[op.parameter]

(***************************************************************************)
(* Vocabulary of the properties on the high level functions.               *)
(***************************************************************************)
\* the four bytes of the 32-bit two's complement of v, high byte first
BigEndian32(v) ==
    LET u == IF v >= 0 THEN v ELSE (v + 2147483647) + 1
        top == IF v >= 0 THEN u \div 16777216 ELSE (u \div 16777216) + 128
    IN  <<top, (u \div 65536) % 256, (u \div 256) % 256, u % 256>>

\* the request of an integer write of v to parameter p
IntegerWrite(p, v) ==
    <<10, FC_WRITE, p \div 256, p % 256>> \o BigEndian32(v)

(***************************************************************************)
(* C21. set_power_setpoint_watts(value) returns 0x04 without any transport *)
(* I/O when value is not an integer; for every integer value it issues     *)
(* exactly one write of the integer value * 1000 to parameter 1206 and     *)
(* returns that write's exception code.  (SpecApp)                         *)
(***************************************************************************)
C21_SetPowerSetpointStep ==
    (pc = "idle" /\ op'.name = "set_power_setpoint_watts") =>
        IF op'.type \in {"float", "str", "NoneType"}
        THEN /\ ret' = Ret(4, 0, <<>>)
             /\ pc' = "idle"
             /\ UNCHANGED <<transaction_number, calls, io, sent_bytes, wire,
                            in_waiting, result>>
        ELSE /\ pc' = "send"
             /\ calls' = calls + 1
             /\ tx_data' = IntegerWrite(1206, op'.value * 1000)

C21_SetPowerSetpoint ==
    /\ [][C21_SetPowerSetpointStep]_vars
    /\ []((op.name = "set_power_setpoint_watts" /\ op.type = "int"
              /\ pc = "idle") =>
             /\ ret.kind = "returned"
             /\ result.outcome = "returned"
             /\ ret.code = result.code
             /\ io = <<"send", "recv">>)

(***************************************************************************)
(* C22 as stated. set_power_setpoint_watts(w) followed by                  *)
(* get_power_setpoint_watts() returns (0, w) against a device that echoes  *)
(* the write and returns w * 1000 on read, on an open connection: the get  *)
(* returns code 0 and the watts whose thousandfold the device holds.       *)
(* (SpecRound)                                                             *)
(***************************************************************************)
C22_SetpointRoundTrip ==
    (pc = "idle" /\ op.name = "get_power_setpoint_watts") =>
        /\ ret.kind = "returned"
        /\ ret.code = 0
        /\ BigEndian32(ret.value * 1000) = dev_value[PNUM_POWER_SETPOINT]

\* the functions of C23
WattsAndKilohertz ==
    {"get_power_setpoint_watts", "get_rf_frequency", "get_cex_frequency",
     "get_forward_power_watts", "get_reflected_power_watts",
     "get_load_power_watts"}

\* the call has ended with a read reply of four value bytes, accepted with
\* code 0
ReadingReceived ==
    /\ pc = "idle"
    /\ result.outcome = "returned"
    /\ result.code = 0
    /\ Len(result.data) = 7

\* the reading of the device that the reply carries
RawReading ==
    CHOOSE v \in RawValues : BigEndian32(v) = SubSeq(result.data, 4, 7)

\* q is v / 1000 with its fraction dropped, v being a 32-bit value
TruncatedThousandth(v, q) ==
    /\ q >= 0 - 2147483
    /\ q <= 2147483
    /\ IF v >= 0 THEN v - (q * 1000) \in 0..999
       ELSE (q * 1000) - v \in 0..999

(***************************************************************************)
(* C23. get_power_setpoint_watts, get_rf_frequency, get_cex_frequency and  *)
(* the forward / reflected / load power getters return the raw 32-bit      *)
(* signed reading divided by 1000 and truncated toward zero (raw -1500     *)
(* gives -1, raw 1999 gives 1), together with the unchanged exception code *)
(* of the underlying read.  (SpecApp)                                      *)
(***************************************************************************)
C23_GettersDivideTruncating ==
    (pc = "idle" /\ op.name \in WattsAndKilohertz
       /\ result.outcome = "returned") =>
        /\ ret.kind = "returned"
        /\ ret.code = result.code
        /\ ReadingReceived => TruncatedThousandth(RawReading, ret.value)
        /\ (ReadingReceived /\ RawReading = -1500) => ret.value = -1
        /\ (ReadingReceived /\ RawReading = 1999) => ret.value = 1

\* stream mode: get_load_power_watts got the reading -1500 and returned
\* (0, -1)
C23_Witness ==
    /\ host_mode = SERIAL
    /\ op.name = "get_load_power_watts"
    /\ ReadingReceived
    /\ SubSeq(result.data, 4, 7) = <<255, 255, 250, 36>>
    /\ ret.code = 0
    /\ ret.value = -1

\* the names of the states 0..6, in this order: "Init", "RF off", "RF on",
\* "Error", "Calibration", "Update", "Blocked"
StateNames ==
    <<<<73, 110, 105, 116>>, <<82, 70, 32, 111, 102, 102>>,
      <<82, 70, 32, 111, 110>>, <<69, 114, 114, 111, 114>>,
      <<67, 97, 108, 105, 98, 114, 97, 116, 105, 111, 110>>,
      <<85, 112, 100, 97, 116, 101>>,
      <<66, 108, 111, 99, 107, 101, 100>>>>

\* "Undefined"
UndefinedName == <<85, 110, 100, 101, 102, 105, 110, 101, 100>>

(***************************************************************************)
(* C24. get_rf_status_string maps the raw state value by {0: "Init",       *)
(* 1: "RF off", 2: "RF on", 3: "Error", 4: "Calibration", 5: "Update",     *)
(* 6: "Blocked"} and every other 32-bit value (99, -1) to "Undefined";     *)
(* get_rf_status_int returns the raw value of the same parameter 8000.     *)
(* (SpecApp)                                                               *)
(***************************************************************************)
C24_StatusMapping ==
    /\ (op.name \in {"get_rf_status_string", "get_rf_status_int"}
          /\ FrameSent) =>
           tx_data = <<10, FC_READ, 8000 \div 256, 8000 % 256, 0, 1>>
    /\ (op.name = "get_rf_status_string" /\ ReadingReceived) =>
           /\ ret.kind = "returned"
           /\ ret.code = 0
           /\ ret.text = IF RawReading \in 0..6 THEN StateNames[RawReading + 1]
                         ELSE UndefinedName
    /\ (op.name = "get_rf_status_int" /\ ReadingReceived) =>
           /\ ret.kind = "returned"
           /\ ret.code = 0
           /\ ret.value = RawReading

\* packet mode: the state 99 was read and "Undefined" returned
C24_Witness ==
    /\ host_mode = ETHERNET
    /\ op.name = "get_rf_status_string"
    /\ ReadingReceived
    /\ RawReading = 99
    /\ ret.text = UndefinedName

\* the codes of the modbus exception table: 40 codes
MappedCodes ==
    (0..8) \cup {10, 11} \cup (129..140) \cup (193..198) \cup (209..215)
        \cup (225..228)

\* decode_cito_exception_code has returned
DecodeEnded == pc = "decode_done"

(***************************************************************************)
(* C25. decode_cito_exception_code returns the name from the fixed modbus  *)
(* exception table for every mapped code (0x04 gives                       *)
(* "EXCEPT_SLAVE_DEVICE_FAILURE", so a device reply with function code     *)
(* 0xC1 and exception byte 0x04 to a read request decodes to that string)  *)
(* and "UNKNOWN_EXCEPTION_CODE" for every unmapped code in 0x00..0xFF,     *)
(* including the catch-all 0xFF.  (SpecDecode)                             *)
(***************************************************************************)
C25_DecodeExceptionCode ==
    /\ Cardinality(MappedCodes) = 40
    /\ DOMAIN modbus_exception_codes = MappedCodes
    /\ DecodeEnded =>
        /\ decoded.code \in MappedCodes =>
               /\ decoded.name = modbus_exception_codes[decoded.code]
               /\ decoded.name # "UNKNOWN_EXCEPTION_CODE"
        /\ decoded.code \notin MappedCodes =>
               decoded.name = "UNKNOWN_EXCEPTION_CODE"
        /\ decoded.code = 4 => decoded.name = "EXCEPT_SLAVE_DEVICE_FAILURE"
        /\ decoded.code = 255 => decoded.name = "UNKNOWN_EXCEPTION_CODE"
        /\ (op.name = "read_integer" /\ result.classified
              /\ result.data[2] = 193 /\ result.data[3] = 4) =>
               decoded.name = "EXCEPT_SLAVE_DEVICE_FAILURE"

\* stream mode: a read was answered with function code 0xC1 and exception
\* byte 4, and the code returned was decoded
C25_Witness ==
    /\ DecodeEnded
    /\ host_mode = SERIAL
    /\ op.name = "read_integer"
    /\ result.classified
    /\ result.data[2] = 193
    /\ result.data[3] = 4
    /\ decoded.code = 4
    /\ decoded.name = "EXCEPT_SLAVE_DEVICE_FAILURE"

(***************************************************************************)
(* Vocabulary of the properties on the scans.                              *)
(***************************************************************************)
\* the scan named name has returned its list
ScanReturned(name) == scan.name = name /\ scan.stage = "returned"

\* the read e of the log has returned exception 0 and a non-empty text
\* (text) / a value > 0
ActiveEntry(e, text) ==
    /\ e.kind = "returned"
    /\ e.code = 0
    /\ IF text THEN e.text # <<>> ELSE e.value > 0

\* e is a read of parameter p, with read_string (text) / read_integer
ReadOf(e, p, text) ==
    /\ e.parameter = p
    /\ e.name = IF text THEN "read_string" ELSE "read_integer"

RECURSIVE SlotsWalk(_, _, _, _, _, _)
\* the reads of log from the i-th on are those of a scan of the slots from
\* the k-th on (ok), and the list such a scan returns (array): each slot is
\* read once, in order; after an active slot, and only then, a scan with
\* states reads the state at states[k] next and pairs the two; a scan
\* without states (states = <<>>) lists the active slots' text / value
SlotsWalk(log, i, slots, k, text, states) ==
    IF k > Len(slots) THEN [ok |-> i = Len(log) + 1, array |-> <<>>]
    ELSE IF i > Len(log) \/ ~ReadOf(log[i], slots[k], text)
    THEN [ok |-> FALSE, array |-> <<>>]
    ELSE IF ActiveEntry(log[i], text) /\ states # <<>>
    THEN IF i + 1 > Len(log) \/ ~ReadOf(log[i + 1], states[k], FALSE)
         THEN [ok |-> FALSE, array |-> <<>>]
         ELSE LET rest == SlotsWalk(log, i + 2, slots, k + 1, text, states)
                  first == IF text THEN log[i].text ELSE log[i].value
              IN  [ok |-> rest.ok,
                   array |-> <<<<first, log[i + 1].value>>>> \o rest.array]
    ELSE LET rest == SlotsWalk(log, i + 1, slots, k + 1, text, states)
             first == IF text THEN log[i].text ELSE log[i].value
         IN  [ok |-> rest.ok,
              array |-> (IF ActiveEntry(log[i], text) THEN <<first>>
                         ELSE <<>>) \o rest.array]

\* the scan has made the reads of a scan of slots, and returned its list
ScannedAs(slots, text, states) ==
    LET walk == SlotsWalk(scan.log, 1, slots, 1, text, states)
    IN  walk.ok /\ scan.array = walk.array

(***************************************************************************)
(* C26. Each scan operation returns, in scan order, exactly the active     *)
(* slots of its fixed parameter range, a slot being active when its read   *)
(* returns exception 0 and a non-empty text / a value > 0:                 *)
(* read_errors_as_text scans 8101..8131 step 2 and pairs each active slot  *)
(* with the status read from the next parameter; read_warnings_as_text     *)
(* scans 8151..8166 and read_warnings_as_numbers scans 8167..8182, both    *)
(* without a status field; the status parameter is read only for active    *)
(* slots.  (SpecScan)                                                      *)
(***************************************************************************)
C26_ScansReturnActiveSlots ==
    /\ ScanReturned("read_errors_as_text") =>
           ScannedAs([k \in 1..16 |-> 8099 + (2 * k)], TRUE,
                     [k \in 1..16 |-> 8100 + (2 * k)])
    /\ ScanReturned("read_warnings_as_text") =>
           ScannedAs([k \in 1..16 |-> 8150 + k], TRUE, <<>>)
    /\ ScanReturned("read_warnings_as_numbers") =>
           ScannedAs([k \in 1..16 |-> 8166 + k], FALSE, <<>>)

\* stream mode: read_errors_as_text has returned the four active slots of a
\* device whose slots are active, empty, refused and empty in turn, each
\* with its state, after 16 + 4 reads
C26_Witness ==
    /\ host_mode = SERIAL
    /\ ScanReturned("read_errors_as_text")
    /\ Len(scan.log) = 20
    /\ scan.array = << <<<<69, 48>>, 100>>, <<<<69, 52>>, 104>>,
                       <<<<69, 56>>, 108>>, <<<<69, 50>>, 112>> >>

(***************************************************************************)
(* C27 as stated. read_errors_as_numbers and read_errors_as_text cover the *)
(* same error slots: for each slot index k the number scan reads parameter *)
(* 8133 + k and pairs it with the same status parameter 8102 + 2k that the *)
(* text scan pairs with text parameter 8101 + 2k, both scans have the same *)
(* number of slots (the 16 of the text scan, k = 0..15), and no status     *)
(* parameter read by the number scan is itself an error-number parameter.  *)
(* (SpecScan)                                                              *)
(***************************************************************************)
C27_ErrorScansCoverSameSlots ==
    /\ ScanReturned("read_errors_as_text") =>
           ScannedAs([k \in 1..16 |-> 8101 + (2 * (k - 1))], TRUE,
                     [k \in 1..16 |-> 8102 + (2 * (k - 1))])
    /\ ScanReturned("read_errors_as_numbers") =>
           ScannedAs([k \in 1..16 |-> 8133 + (k - 1)], FALSE,
                     [k \in 1..16 |-> 8102 + (2 * (k - 1))])

\* the value a command operation writes: 1 for set_rf_on(True) and
\* set_rf_off(False), 0 for set_rf_off(True) and set_rf_on(False), 9 for
\* reset_errors()
CommandValue(o) ==
    IF o.name = "reset_errors" THEN 9
    ELSE IF o.name = "set_rf_on" THEN (IF o.value = 1 THEN 1 ELSE 0)
    ELSE (IF o.value = 1 THEN 0 ELSE 1)

CommandNames == {"set_rf_on", "set_rf_off", "reset_errors"}

(***************************************************************************)
(* C28. Each command operation issues exactly one integer write to the     *)
(* command parameter 1001: set_rf_on(True) and set_rf_off(False) write 1,  *)
(* set_rf_off(True) and set_rf_on(False) write 0, reset_errors() writes 9; *)
(* so set_rf_on(b) and set_rf_off(not b) send identical payloads for both  *)
(* booleans b.  (SpecApp)                                                  *)
(***************************************************************************)
C28_CommandStep ==
    (pc = "idle" /\ op'.name \in CommandNames) =>
        /\ pc' = "send"
        /\ calls' = calls + 1
        /\ tx_data' = IntegerWrite(1001, CommandValue(op'))

ReadNames == {"read_integer", "read_float", "read_string", "read_ip_addr"}

WriteNames == {"write_integer", "write_float", "write_string",
               "write_ip_addr"}

\* the parameter number p as a 16-bit unsigned value, high byte first
Param16(p) == <<(p % 65536) \div 256, (p % 65536) % 256>>

\* the encoded value of a write operation: 4 big-endian bytes for an
\* integer and for an IPv4 address, the bytes of the characters and one 0x00
\* for a str, the 4 bytes of the float
EncodedValue(o) ==
    IF o.name = "write_integer" THEN BigEndian32(o.value)
    ELSE IF o.name = "write_ip_addr" THEN OctetsOf(o.text)
    ELSE IF o.name = "write_string" THEN o.text \o <<0>>
    ELSE o.text

\* the payload C29 gives for the operation o
RequestShape(o) ==
    IF o.name \in ReadNames THEN <<10, 65>> \o Param16(o.parameter) \o <<0, 1>>
    ELSE <<10, 66>> \o Param16(o.parameter) \o EncodedValue(o)

\* the operation makes a request: every one but write_ip_addr of a text
\* that is no address
MakesRequest(o) ==
    /\ o.name \in ReadNames \cup WriteNames
    /\ o.name = "write_ip_addr" => OctetsOf(o.text) # <<>>

\* the payload in the frame handed to the transport: after the 6 bytes of
\* the header in packet mode, before the 2 bytes of the CRC in stream mode
SentPayload ==
    IF host_mode = ETHERNET THEN DropFirst6(sent_bytes)
    ELSE DropLast2(sent_bytes)

(***************************************************************************)
(* C29. Every read operation (integer, float, string, IPv4) sends the      *)
(* payload [0x0A, 0x41, paramHi, paramLo, 0x00, 0x01] and every write      *)
(* sends [0x0A, 0x42, paramHi, paramLo] + the encoded value (4 big-endian  *)
(* bytes for integer and IPv4; the ASCII bytes followed by exactly one     *)
(* 0x00 for strings), where paramHi * 256 + paramLo is the parameter       *)
(* number as a 16-bit unsigned value.  (SpecReq)                           *)
(***************************************************************************)
C29_RequestStep ==
    (pc = "idle" /\ MakesRequest(op')) =>
        /\ pc' = "send"
        /\ tx_data' = RequestShape(op')

C29_RequestShapes ==
    /\ [][C29_RequestStep]_vars
    /\ []((MakesRequest(op) /\ FrameSent) =>
             /\ SentPayload = RequestShape(op)
             /\ (SentPayload[3] * 256) + SentPayload[4]
                    = op.parameter % 65536
             /\ op.name \in WriteNames => Len(SentPayload) >= 5
             /\ op.name \in {"write_integer", "write_float", "write_ip_addr"}
                    => Len(SentPayload) = 8
             /\ op.name = "write_string" =>
                    /\ Len(SentPayload) = 5 + Len(op.text)
                    /\ SentPayload[Len(SentPayload)] = 0)

\* stream mode: write_string(65535, "RF on") has sent its request
C29_Witness ==
    /\ host_mode = SERIAL
    /\ op.name = "write_string"
    /\ FrameSent
    /\ DropLast2(sent_bytes)
           = <<10, 66, 255, 255, 82, 70, 32, 111, 110, 0>>

(***************************************************************************)
(* Vocabulary of the property on the order of the transport calls.         *)
(***************************************************************************)
\* the transport calls one transaction can have made
TransportCalls == {<<>>, <<"send">>, <<"send", "recv">>}

\* what a failed send returns
SendFailureCodes == {195, 196}

\* a transaction is running: _data_exchange has been entered and has
\* neither returned nor raised
InTransaction == pc \in {"send", "recv"}

(***************************************************************************)
(* C30. Each transaction performs at most one transport send followed by   *)
(* receiving: the receive is attempted only after the send returned        *)
(* without failure, a failed send returns its code with no receive, and a  *)
(* transaction returns (so the next may begin) only after its receive step *)
(* finished, failed or timed out; no two transactions of one client        *)
(* overlap.  (Spec)                                                        *)
(***************************************************************************)
C30_TransactionStep ==
    \* the receive is entered from a send that did not fail
    /\ (pc # "recv" /\ pc' = "recv") =>
           /\ pc = "send"
           /\ fault' = ""
           /\ io' = <<"send">>
    \* a failed send returns its code, and nothing is received
    /\ (pc = "send" /\ pc' # "recv") =>
           /\ pc' = "idle"
           /\ fault' # ""
           /\ io' = <<"send">>
           /\ result'.outcome = "returned"
           /\ result'.code \in SendFailureCodes
    \* after a send that did not fail, the return comes from the receive
    /\ (pc = "recv" /\ pc' # "recv") =>
           /\ pc' = "idle"
           /\ io' = <<"send", "recv">>
           /\ result' # NoResult
    \* a transaction begins when none is running, and its request is kept
    \* until it has ended
    /\ calls' # calls =>
           /\ ~InTransaction
           /\ calls' = calls + 1
           /\ io' = <<>>
    /\ InTransaction =>
           /\ calls' = calls
           /\ op' = op
           /\ tx_data' = tx_data
           /\ tx_array' = tx_array

Tick ==
    /\ host_mode = SERIAL
    /\ pc \in {"recv", "check"}
    /\ now <= serial_timeout
    /\ now' = now + TickMs
    /\ UNCHANGED <<host_mode, transaction_number, pc, calls, tx_data,
                   tx_transaction_number, tx_array, tx_function_code,
                   rx_data_buffer, rx_data_recv, ser_rx_complete, result, io,
                   sent_bytes, wire, in_waiting, crc_data, crc_out, socket,
                   lifecycle, op, ret, fault, dev_value, scan, decoded,
                   leftover, buffered_at, ctor, rel, recipe, rpc, recipe_i,
                   recipe_step, trace>>

\* the first half of a pass: the port's input buffer is emptied into
\* rx_data_buffer and the checksum is tested
SerialRead(exceptions) ==
    /\ pc = "recv"
    /\ host_mode = SERIAL
    /\ io' = IF io # <<>> /\ io[Len(io)] = "recv" THEN io
             ELSE Append(io, "recv")
    /\ \/ \E exc \in exceptions :
            /\ fault' = exc
            /\ result' = SerRecvFailure(exc, rx_data_buffer)
            /\ pc' = "idle"
            /\ UNCHANGED <<rx_data_buffer, in_waiting, ser_rx_complete,
                           buffered_at>>
       \/ /\ fault' = ""
          /\ rx_data_buffer' = rx_data_buffer \o in_waiting
          /\ in_waiting' = <<>>
          /\ ser_rx_complete' = SerialComplete(rx_data_buffer')
          /\ buffered_at' = IF in_waiting # <<>> THEN now ELSE buffered_at
          /\ pc' = "check"
          /\ UNCHANGED result
    /\ ret' = PublicReturn(op, result')
    /\ UNCHANGED <<host_mode, transaction_number, calls, tx_data,
                   tx_transaction_number, tx_array, tx_function_code,
                   rx_data_recv, sent_bytes, wire, crc_data, crc_out, socket,
                   lifecycle, op, dev_value, scan, decoded, leftover, now,
                   ctor, rel, recipe, rpc, recipe_i, recipe_step, trace>>

\* the second half of a pass: rx_timeout is taken from the clock and tested;
\* when the loop ends the CRC is removed and the reply is classified
SerialTimeCheck ==
    /\ pc = "check"
    /\ host_mode = SERIAL
    /\ IF now > serial_timeout
       THEN /\ fault' = "late"
            /\ result' = Returned(ISOCKET_READ_TIMEOUT, rx_data_buffer)
            /\ pc' = "idle"
            /\ UNCHANGED rx_data_recv
       ELSE IF ser_rx_complete
       THEN /\ fault' = ""
            /\ rx_data_recv' = rx_data_buffer
            /\ result' = Classify(SERIAL, tx_array, tx_function_code,
                                  rx_data_buffer)
            /\ pc' = "idle"
       ELSE /\ pc' = "recv"
            /\ UNCHANGED <<fault, result, rx_data_recv>>
    /\ ret' = PublicReturn(op, result')
    /\ UNCHANGED <<host_mode, transaction_number, calls, tx_data,
                   tx_transaction_number, tx_array, tx_function_code,
                   rx_data_buffer, ser_rx_complete, io, sent_bytes, wire,
                   in_waiting, crc_data, crc_out, socket, lifecycle, op,
                   dev_value, scan, decoded, leftover, now, buffered_at, ctor,
                   rel, recipe, rpc, recipe_i, recipe_step, trace>>

InitTime ==
    /\ host_mode = SERIAL
    /\ pc = "idle"
    /\ crc_data = <<>>
    /\ InitClient
    /\ LayersAtRest
    /\ DeviceAtRest
    /\ Opened

NextTime ==
    \/ PublicCall(MaxTimeCalls,
                  {Op("read_integer", PNUM_POWER_SETPOINT, 0, <<>>),
                   Op("write_integer", PNUM_COMMAND, 1, <<>>)})
    \/ TransportSend({}, AnyAnswers(host_mode, tx_array, dev_value))
    \/ SerialBytesArrive
    \/ SerialRead({"SerialException"})
    \/ SerialTimeCheck
    \/ Tick

\* the clock advances and the loop goes on
SpecTime ==
    /\ InitTime
    /\ [][NextTime]_vars
    /\ WF_vars(Tick)
    /\ WF_vars(SerialRead({"SerialException"}))
    /\ WF_vars(SerialTimeCheck)

(***************************************************************************)
(* C31. A stream-mode receive always terminates: once more than the        *)
(* 1000 ms budget has elapsed without a checksum match it returns          *)
(* read-timeout 0xC5, and whenever a complete checksum-valid reply of at   *)
(* least 5 bytes has been buffered within the budget it returns that       *)
(* reply's payload rather than a timeout.  (SpecTime)                      *)
(***************************************************************************)
\* the loop is left
C31_ReceiveTerminates == (pc \in {"recv", "check"}) ~> (pc = "idle")

\* the time limit is found passed and no checksum has matched: 0xC5
C31_TimeoutStep ==
    (pc = "check" /\ pc' # "check" /\ now > 1000 /\ ~ser_rx_complete) =>
        /\ pc' = "idle"
        /\ result' = Returned(197, rx_data_buffer)

\* a reply that was complete in the buffer by 1000 ms is returned
C31_BufferedInTimeStep ==
    (/\ pc = "check"
     /\ pc' # "check"
     /\ ser_rx_complete
     /\ Len(rx_data_buffer) >= 5
     /\ buffered_at <= 1000) =>
        /\ pc' = "idle"
        /\ result'.outcome = "returned"
        /\ result'.code # 197
        /\ result'.data = DropLast2(rx_data_buffer)

C31_ReceiveWithinBudget ==
    /\ C31_ReceiveTerminates
    /\ [][C31_TimeoutStep]_vars
    /\ [][C31_BufferedInTimeStep]_vars

\* the parts of C31 that hold: the loop is left, and with 0xC5 when the
\* limit is found passed
C31_TerminatesAndTimesOut ==
    /\ C31_ReceiveTerminates
    /\ [][C31_TimeoutStep]_vars

(***************************************************************************)
(* SpecCtor: CitoBase.__init__ applied to a host address, a port and a     *)
(* mode.                                                                   *)
(***************************************************************************)
\* an argument that is given
Some(v) == [none |-> FALSE, value |-> v]

\* str[0:3]
First3(str) == SubSeq(str, 1, IF Len(str) < 3 THEN Len(str) ELSE 3)

\* str[3:]
From3(str) == IF Len(str) <= 3 THEN <<>> ELSE SubSeq(str, 4, Len(str))

\* str.upper() of a str of ASCII characters
Upper(str) ==
    [i \in 1..Len(str) |-> IF str[i] \in 97..122 THEN str[i] - 32 ELSE str[i]]

\* the port test
PortOk(host_port) == host_port > 0 /\ host_port <= 65535

\* the guess of the mode from the address: the attribute host_mode is set
\* (to ETHERNET or to SERIAL) or is not set at all
GuessedMode(host_addr) ==
    IF Upper(First3(host_addr)) # <<67, 79, 77>> THEN {ETHERNET}
    ELSE IF ~IntOk(From3(host_addr)) THEN {ETHERNET}
    ELSE IF IntOf(From3(host_addr)) > 0 /\ IntOf(From3(host_addr)) <= 255
    THEN {SERIAL}
    ELSE {}

\* the explicit mode: the attribute, when the argument is one of the two
ExplicitMode(mode) ==
    IF mode = ETHERNET THEN {ETHERNET}
    ELSE IF mode = SERIAL THEN {SERIAL}
    ELSE {}

\* CitoBase(host_addr, host_port, host_mode): how the call ends, the
\* attributes the object has then, and the values of two of them
CitoBaseInit(host_addr, host_port, mode_arg) ==
    LET port_raises == ~host_port.none /\ ~PortOk(host_port.value)
        mode == IF mode_arg.none THEN GuessedMode(host_addr)
                ELSE ExplicitMode(mode_arg.value)
        mode_raises == ~mode_arg.none /\ mode = {}
    IN  [host_addr |-> host_addr,
         host_port |-> host_port,
         host_mode |-> mode_arg,
         outcome |-> IF port_raises \/ mode_raises THEN "ValueError"
                     ELSE "returned",
         attributes |->
             {"host_addr"}
                 \cup (IF port_raises THEN {} ELSE {"host_port"})
                 \cup (IF port_raises \/ mode = {} THEN {}
                       ELSE {"host_mode"})
                 \cup (IF port_raises \/ mode_raises THEN {}
                       ELSE {"baudrate", "bytesize", "parity", "stopbits",
                             "transaction_number"}),
         self_host_port |-> IF host_port.none THEN 502
                            ELSE IF port_raises THEN 0
                            ELSE host_port.value,
         self_host_mode |-> IF port_raises \/ mode = {} THEN 0
                            ELSE CHOOSE m \in mode : TRUE]

\* host addresses
HostAddrs ==
    {<<67, 79, 77, 49>>,                                            \* "COM1"
     <<67, 79, 77, 48>>,                                            \* "COM0"
     <<67, 79, 77, 50, 53, 53>>,                                    \* "COM255"
     <<67, 79, 77, 50, 53, 54>>,                                    \* "COM256"
     <<99, 111, 109, 51>>,                                          \* "com3"
     <<67, 79, 77>>,                                                \* "COM"
     <<67, 79, 77, 120>>,                                           \* "COMx"
     <<67, 79, 77, 45, 49>>,                                        \* "COM-1"
     <<67, 79, 77, 32, 55>>,                                        \* "COM 7"
     <<67, 79>>,                                                    \* "CO"
     <<>>,                                                          \* ""
     <<47, 100, 101, 118, 47, 116, 116, 121, 85, 83, 66, 48>>,      \* "/dev/ttyUSB0"
     <<49, 54, 57, 46, 50, 53, 52, 46, 49, 46, 49>>}                \* "169.254.1.1"

\* ports: None, and values in and around 1..65535
HostPorts == {NoneArg} \cup {Some(p) : p \in {1, 502, 65535, 0, 65536, -1}}

\* modes: None, the two modes, and other values
HostModes == {NoneArg} \cup {Some(m) : m \in {ETHERNET, SERIAL, 2, -1}}

\* the call is about to be made
CtorArguments(host_addr, host_port, mode_arg) ==
    [NoCtor EXCEPT !.host_addr = host_addr, !.host_port = host_port,
                   !.host_mode = mode_arg]

\* the call of CitoBase(...)
CtorCall ==
    /\ pc = "ctor"
    /\ ctor' = CitoBaseInit(ctor.host_addr, ctor.host_port, ctor.host_mode)
    /\ host_mode' = IF "host_mode" \in ctor'.attributes
                    THEN ctor'.self_host_mode ELSE host_mode
    /\ pc' = "ctor_done"
    /\ UNCHANGED <<transaction_number, calls, tx_data, tx_transaction_number,
                   tx_array, tx_function_code, rx_data_buffer, rx_data_recv,
                   ser_rx_complete, result, io, sent_bytes, wire, in_waiting,
                   crc_data, crc_out, socket, lifecycle, op, ret, fault,
                   dev_value, scan, decoded, leftover, now, buffered_at, rel,
                   recipe, rpc, recipe_i, recipe_step, trace>>

\* the object does not exist yet: the class attribute ETHERNET = 0 stands
\* for the field host_mode until the constructor has set it
InitCtor ==
    /\ host_mode = ETHERNET
    /\ pc = "ctor"
    /\ crc_data = <<>>
    /\ InitClient
    /\ leftover = 0
    /\ now = 0
    /\ buffered_at = 0
    /\ \E a \in HostAddrs, p \in HostPorts, m \in HostModes :
           ctor = CtorArguments(a, p, m)
    /\ rel = RelaysAtRest
    /\ recipe = NoRecipe
    /\ rpc = "off"
    /\ recipe_i = 0
    /\ recipe_step = 0
    /\ trace = <<>>
    /\ DeviceAtRest
    /\ Constructed

NextCtor == CtorCall

SpecCtor == InitCtor /\ [][NextCtor]_vars

(***************************************************************************)
(* Vocabulary of the property on the constructor.                          *)
(***************************************************************************)
\* the constructor has returned normally
CtorReturned == pc = "ctor_done" /\ ctor.outcome = "returned"

\* the constructor has raised ValueError
CtorRejected == pc = "ctor_done" /\ ctor.outcome = "ValueError"

(***************************************************************************)
(* C32. After the constructor returns normally, the connection mode is     *)
(* always one of the two transports (ETHERNET or SERIAL) for every host    *)
(* address and every host_mode argument; an explicit mode other than 0 or  *)
(* 1 and a port outside 1..65535 are rejected with ValueError, and a       *)
(* missing port defaults to 502.  (SpecCtor)                               *)
(***************************************************************************)
C32_ConstructorSetsMode ==
    /\ CtorReturned =>
           /\ "host_mode" \in ctor.attributes
           /\ ctor.self_host_mode \in {0, 1}
           /\ ctor.host_port.none => ctor.self_host_port = 502
    /\ (/\ pc = "ctor_done"
        /\ ~ctor.host_mode.none
        /\ ctor.host_mode.value \notin {0, 1}) => CtorRejected
    /\ (/\ pc = "ctor_done"
        /\ ~ctor.host_port.none
        /\ ctor.host_port.value \notin 1..65535) => CtorRejected

\* C32 without its first sentence: what is rejected, and the default port
C32_RejectsAndDefaults ==
    /\ CtorReturned =>
           /\ ctor.host_port.none => ctor.self_host_port = 502
           /\ ~ctor.host_mode.none =>
                  /\ "host_mode" \in ctor.attributes
                  /\ ctor.self_host_mode = ctor.host_mode.value
    /\ (/\ pc = "ctor_done"
        /\ ~ctor.host_mode.none
        /\ ctor.host_mode.value \notin {0, 1}) => CtorRejected
    /\ (/\ pc = "ctor_done"
        /\ ~ctor.host_port.none
        /\ ctor.host_port.value \notin 1..65535) => CtorRejected

(***************************************************************************)
(* Vocabulary of the property on the transaction id of a reply.            *)
(***************************************************************************)
\* a packet-mode call has returned exception code 0 for a reply
EthSuccess ==
    /\ host_mode = ETHERNET
    /\ pc = "idle"
    /\ result.classified
    /\ result.code = 0

\* the id in bytes 0..1 of the reply is the id of the request
SameTransactionId ==
    /\ Len(rx_data_recv) >= 2
    /\ (rx_data_recv[1] * 256) + rx_data_recv[2] = tx_transaction_number
    /\ SubSeq(rx_data_recv, 1, 2) = SubSeq(sent_bytes, 1, 2)

(***************************************************************************)
(* C33. In packet mode, a reply is returned with exception code 0 only if  *)
(* its transaction id (frame bytes 0..1) equals the transaction id of the  *)
(* request sent in the same transaction; a reply carrying a different id   *)
(* (for instance a late reply to an earlier request that timed out) is not *)
(* reported as the successful answer to the current read.  (Spec)          *)
(***************************************************************************)
C33_ReplyIdMatchesRequest == EthSuccess => SameTransactionId

\* what holds of C33: a reply with the function code of a write is a
\* success only when it is the frame that was sent, id included
C33_WriteReplyIdMatches ==
    (EthSuccess /\ result.data[2] = FC_WRITE) => SameTransactionId

(***************************************************************************)
(* SpecStale: a SERIAL client and the echoing device, which answers every  *)
(* request; a call may time out before its answer has arrived, and the     *)
(* next call is made with that answer still on the line.                   *)
(***************************************************************************)
StaleOps ==
    {Op("read_integer", PNUM_POWER_SETPOINT, 0, <<>>),
     Op("write_integer", PNUM_POWER_SETPOINT, 30000, <<>>)}

InitStale ==
    /\ host_mode = SERIAL
    /\ pc = "idle"
    /\ crc_data = <<>>
    /\ InitClient
    /\ LayersAtRest
    /\ DeviceAtRest
    /\ Opened

NextStale ==
    \/ PublicCall(MaxStaleCalls, StaleOps)
    \/ TransportSendUpTo(MaxLeftover, {},
                         DevAnswers(host_mode, tx_data, dev_value))
    \/ SerialReceivePass({}, BOOLEAN)
    \/ SerialBytesArrive

SpecStale == InitStale /\ [][NextStale]_vars

(***************************************************************************)
(* Vocabulary of the property on the bytes of a serial reply.              *)
(***************************************************************************)
\* a stream-mode call has returned a payload it took for a reply
SerialReplyReturned ==
    /\ host_mode = SERIAL
    /\ pc = "idle"
    /\ result.classified

\* the bytes read by the call are the first bytes of the answer the device
\* gave to its request: none were on the line or in the port before the
\* request was written
OwnBytesOnly ==
    /\ leftover = 0
    /\ \E n \in 0..Len(SerFrame(DevAnswer(dev_value, tx_data))) :
           rx_data_buffer = SubSeq(SerFrame(DevAnswer(dev_value, tx_data)),
                                   1, n)

(***************************************************************************)
(* C34. In stream mode, the payload returned by a transaction is built     *)
(* only from bytes the device sent in answer to that transaction's         *)
(* request: bytes that arrive after a transaction has returned (read       *)
(* timeout 0xC5, or early acceptance) are not consumed as part of the      *)
(* reply to a later request.  (SpecStale)                                  *)
(***************************************************************************)
C34_ReplyFromOwnBytes == SerialReplyReturned => OwnBytesOnly

\* what holds of C34: the first transaction on a line with nothing unread
C34_FirstReplyFromOwnBytes ==
    (SerialReplyReturned /\ leftover = 0) => OwnBytesOnly

(***************************************************************************)
(* SpecWrap: a client whose transaction counter stands at its first or at  *)
(* one of its last two values (SpecSeq reaches each of them), on which     *)
(* calls that are rejected, that fail in send or recv and that are         *)
(* answered are made, with open, isopen and close between them.            *)
(***************************************************************************)
\* values of self.transaction_number the calls start from
WrapStarts == {0, 65534, 65535}

\* the operations called on the client of SpecWrap
WrapOps(mode) ==
    Ops(mode) \cup {Op("write_ip_addr", PNUM_POWER_SETPOINT, 0, BadIpText)}

InitWrap ==
    /\ host_mode \in {ETHERNET, SERIAL}
    /\ pc = "idle"
    /\ crc_data = <<>>
    /\ transaction_number \in WrapStarts
    /\ calls = 0
    /\ tx_data = <<>>
    /\ tx_transaction_number = 0
    /\ tx_array = <<>>
    /\ tx_function_code = 0
    /\ rx_data_buffer = <<>>
    /\ rx_data_recv = <<>>
    /\ ser_rx_complete = FALSE
    /\ result = NoResult
    /\ io = <<>>
    /\ sent_bytes = <<>>
    /\ wire = <<>>
    /\ in_waiting = <<>>
    /\ crc_out = <<>>
    /\ op = NoOp
    /\ ret = NoRet
    /\ fault = ""
    /\ scan = NoScan
    /\ LayersAtRest
    /\ DeviceAtRest
    /\ Opened

NextWrap ==
    \/ OpenCall
    \/ IsOpenCall
    \/ CloseCall
    \/ PublicCall(MaxWrapCalls, WrapOps(host_mode))
    \/ TransportSend(SendExceptions(host_mode),
                     AnyAnswers(host_mode, tx_array, dev_value))
    \/ EthernetReceive(RecvExceptions, {<<>>, tx_array})
    \/ SerialReceivePass({"SerialException"}, BOOLEAN)
    \/ SerialReplyArrives

SpecWrap == InitWrap /\ [][NextWrap]_vars

(***************************************************************************)
(* C35. In packet mode every call to _data_exchange advances the           *)
(* transaction counter by exactly one modulo 0x10000, including calls      *)
(* rejected for payload length and calls whose send or receive fails; the  *)
(* counter always stays within 0..0xFFFF, and in stream mode no operation  *)
(* ever changes it.  (SpecWrap)                                            *)
(***************************************************************************)
C35_CounterStep ==
    /\ (host_mode = 0 /\ calls' = calls + 1) =>
           transaction_number' = (transaction_number + 1) % 65536
    /\ (host_mode = 0 /\ calls' = calls) =>
           transaction_number' = transaction_number
    /\ host_mode = 1 => transaction_number' = transaction_number
    /\ calls' \in {calls, calls + 1}

DeviceExceptionReply ==
    /\ pc = "idle"
    /\ result.classified
    /\ result.data[2] = SentFunctionCode + 128

(***************************************************************************)
(* C36. A reply classified as a device exception (function code = request  *)
(* function code + 0x80) never makes a read or write operation return      *)
(* exception code 0: the operation's result is distinguishable from        *)
(* success for every value of the exception byte, including 0x00.  (Spec)  *)
(***************************************************************************)
C36_ExceptionIsNotSuccess ==
    DeviceExceptionReply =>
        /\ ret.kind = "returned"
        /\ ret.code # 0

\* what holds of C36: an exception byte other than 0x00 is the code the
\* operation returns
C36_NonZeroExceptionIsNotSuccess ==
    (DeviceExceptionReply /\ result.data[3] # 0) =>
        /\ ret.kind = "returned"
        /\ ret.code = result.data[3]
        /\ ret.code # 0

(***************************************************************************)
(* The recipe layer, ressources/setup.py: the relays of the gas lines, the *)
(* functions that switch the RF generator through citoctrl, and Recipe /   *)
(* end_recipe as a state machine whose steps are split at the countdowns.  *)
(* trace holds the commands given to the relays and the calls made on      *)
(* citoctrl, in their order.                                               *)
(***************************************************************************)
\* the client variables: the recipe layer calls citoctrl and its calls are
\* recorded in trace
clientVars == <<host_mode, transaction_number, pc, calls, tx_data,
                tx_transaction_number, tx_array, tx_function_code,
                rx_data_buffer, rx_data_recv, ser_rx_complete, result, io,
                sent_bytes, wire, in_waiting, crc_data, crc_out, socket,
                lifecycle, op, ret, fault, dev_value, scan, decoded, leftover,
                now, buffered_at, ctor>>

\* relays = {"TEB": 1, "H2": 2, "Ar": 3}
relays == [TEB |-> 1, H2 |-> 2, Ar |-> 3]

\* sorted(relays.keys())
SortedGases == <<"Ar", "H2", "TEB">>

\* the elements of a list
Elements(list) == {list[k] : k \in 1..Len(list)}

\* a command given to a relay, or a call made on citoctrl with what open()
\* returned
Event(call, gas, value, ok) ==
    [call |-> call, gas |-> gas, value |-> value, ok |-> ok]

\* turn_ON(gas): the relay of "Ar" is normally open
turn_ON(board, gas) == [board EXCEPT ![relays[gas]] = (gas # "Ar")]

\* turn_OFF(gas)
turn_OFF(board, gas) == [board EXCEPT ![relays[gas]] = (gas = "Ar")]

\* the gas lines that are open for a state of the relays
OpenValves(board) ==
    {g \in Elements(SortedGases) :
        IF g = "Ar" THEN ~board[relays[g]] ELSE board[relays[g]]}

RECURSIVE AfterEvents(_, _)
\* the relays after the commands among the events
AfterEvents(board, events) ==
    IF events = <<>> THEN board
    ELSE LET e == Head(events)
             b == IF e.call = "turn_ON" THEN turn_ON(board, e.gas)
                  ELSE IF e.call = "turn_OFF" THEN turn_OFF(board, e.gas)
                  ELSE board
         IN  AfterEvents(b, Tail(events))

\* for v in gases: turn_ON(v)
TurnOnAll(gases) ==
    [k \in 1..Len(gases) |-> Event("turn_ON", gases[k], 0, TRUE)]

\* set_plasma(plasma), opened being what citoctrl.open() returns
set_plasma(plasma, opened) ==
    <<Event("open", "", 0, opened)>>
        \o (IF opened
            THEN <<Event("set_power_setpoint_watts", "", plasma, TRUE),
                   Event("get_power_setpoint_watts", "", 0, TRUE)>>
            ELSE <<>>)

\* HV_ON()
HV_ON(opened) ==
    <<Event("open", "", 0, opened)>>
        \o (IF opened THEN <<Event("set_rf_on", "", 0, TRUE)>> ELSE <<>>)

\* HV_OFF()
HV_OFF(opened) ==
    <<Event("open", "", 0, opened)>>
        \o (IF opened THEN <<Event("set_rf_off", "", 0, TRUE)>> ELSE <<>>)

\* initialize(initgas, ...): every relay is set
initialize(initgas) ==
    [k \in 1..3 |->
        IF initgas # <<>> /\ SortedGases[k] \in Elements(initgas)
        THEN Event("turn_ON", SortedGases[k], 0, TRUE)
        ELSE Event("turn_OFF", SortedGases[k], 0, TRUE)]

\* end_recipe(), opened and opened_again being what the open() of end_recipe
\* and the open() of HV_OFF return
end_recipe(opened, opened_again) ==
    <<Event("turn_OFF", "TEB", 0, TRUE),
      Event("turn_OFF", "H2", 0, TRUE),
      Event("turn_ON", "Ar", 0, TRUE),
      Event("open", "", 0, opened)>>
        \o (IF opened
            THEN HV_OFF(opened_again) \o <<Event("close", "", 0, TRUE)>>
            ELSE <<>>)

\* the body of the step loop up to the countdown
StepOpens(rc, s, opened, opened_again) ==
    TurnOnAll(rc.valves[s + 1])
        \o (IF rc.plasma[s + 1] > 0
            THEN set_plasma(rc.plasma[s + 1], opened) \o HV_ON(opened_again)
            ELSE <<>>)

\* the body of the step loop after the countdown
StepCloses(rc, s, opened) ==
    LET next == rc.valves[((s + 1) % Len(rc.valves)) + 1]
        closed == SelectSeq(rc.valves[s + 1],
                            LAMBDA v : v \notin Elements(next))
    IN  [k \in 1..Len(closed) |-> Event("turn_OFF", closed[k], 0, TRUE)]
            \o (IF rc.plasma[s + 1] > 0 THEN HV_OFF(opened) ELSE <<>>)

\* a recipe: the arguments of Recipe that decide its commands
RecipeOf(initgas, fingas, N, valves, plasma) ==
    [valves |-> valves, plasma |-> plasma, N |-> N, initgas |-> initgas,
     fingas |-> fingas]

\* the default recipes, their number of cycles cut to MaxCycles
Capped(N) == IF N > MaxCycles THEN MaxCycles ELSE N

recPEALD ==
    RecipeOf(<<"Ar">>, <<"Ar">>, Capped(100),
             <<<<"TEB", "Ar">>, <<"Ar">>, <<"H2">>, <<"Ar">>>>,
             <<0, 0, 30, 0>>)

recALD ==
    RecipeOf(<<"Ar">>, <<"Ar">>, Capped(100),
             <<<<"TEB", "Ar">>, <<"Ar">>, <<"H2">>, <<"Ar">>>>,
             <<0, 0, 0, 0>>)

recCVD ==
    RecipeOf(<<"H2">>, <<"H2">>, Capped(1),
             <<<<"TEB", "Ar">>, <<"H2">>>>, <<0, 0>>)

recPECVD ==
    RecipeOf(<<"H2">>, <<"H2">>, Capped(1),
             <<<<"TEB", "Ar">>, <<"H2">>>>, <<0, 30>>)

recPulsedCVD ==
    RecipeOf(<<"H2">>, <<"H2">>, Capped(100),
             <<<<"TEB", "Ar">>, <<"H2">>>>, <<0, 0>>)

recPulsedPECVD ==
    RecipeOf(<<"H2">>, <<"H2">>, Capped(100),
             <<<<"TEB", "Ar">>, <<"H2">>, <<"H2">>>>, <<0, 30, 0>>)

recPurge ==
    RecipeOf(<<"Ar">>, <<"Ar">>, Capped(1), <<<<"TEB", "Ar">>>>, <<0>>)

Recipes == {recPEALD, recALD, recCVD, recPECVD, recPulsedCVD,
            recPulsedPECVD, recPurge}

\* the events happen: the relays follow and the trace grows
Happen(events) ==
    /\ rel' = AfterEvents(rel, events)
    /\ trace' = trace \o events

\* the GO button: Recipe(...) up to the countdown of initialize
GoButton ==
    /\ rpc = "off"
    /\ \E rc \in Recipes :
        /\ recipe' = rc
        /\ Happen(initialize(rc.initgas))
    /\ rpc' = "wait"
    /\ recipe_i' = 0
    /\ recipe_step' = 0
    /\ UNCHANGED clientVars

\* the step loop from the top of its body to the countdown of the step
StepStart ==
    /\ rpc \in {"wait", "between"}
    /\ recipe_i < recipe.N
    /\ \E opened \in BOOLEAN, opened_again \in BOOLEAN :
        Happen(StepOpens(recipe, recipe_step, opened, opened_again))
    /\ rpc' = "countdown"
    /\ UNCHANGED <<recipe, recipe_i, recipe_step>>
    /\ UNCHANGED clientVars

\* the step loop from the end of the countdown to the next pass
StepEnd ==
    /\ rpc = "countdown"
    /\ \E opened \in BOOLEAN :
        Happen(StepCloses(recipe, recipe_step, opened))
    /\ rpc' = "between"
    /\ IF recipe_step + 1 < Len(recipe.valves)
       THEN /\ recipe_step' = recipe_step + 1
            /\ recipe_i' = recipe_i
       ELSE /\ recipe_step' = 0
            /\ recipe_i' = recipe_i + 1
    /\ UNCHANGED recipe
    /\ UNCHANGED clientVars

\* after the last cycle: the final gases are opened and the final countdown
\* starts
Finalization ==
    /\ rpc \in {"wait", "between"}
    /\ recipe_i = recipe.N
    /\ Happen(TurnOnAll(recipe.fingas))
    /\ rpc' = "waitf"
    /\ UNCHANGED <<recipe, recipe_i, recipe_step>>
    /\ UNCHANGED clientVars

\* the end of Recipe: end_recipe() after the final countdown
NormalEnding ==
    /\ rpc = "waitf"
    /\ \E opened \in BOOLEAN, opened_again \in BOOLEAN :
        Happen(end_recipe(opened, opened_again))
    /\ rpc' = "ended"
    /\ UNCHANGED <<recipe, recipe_i, recipe_step>>
    /\ UNCHANGED clientVars

\* the STOP button, pressed with no recipe running, during a countdown or
\* between two steps: the run of the script is given up and end_recipe() is
\* called
StopButton ==
    /\ rpc \in {"off", "wait", "countdown", "between", "waitf"}
    /\ \E opened \in BOOLEAN, opened_again \in BOOLEAN :
        Happen(end_recipe(opened, opened_again))
    /\ rpc' = "ended"
    /\ UNCHANGED <<recipe, recipe_i, recipe_step>>
    /\ UNCHANGED clientVars

\* citoctrl = cb.CitoBase(host_mode = 1, host_addr = cito_address), and the
\* relays in any state
InitRecipe ==
    /\ host_mode = SERIAL
    /\ pc = "idle"
    /\ crc_data = <<>>
    /\ InitClient
    /\ leftover = 0
    /\ now = 0
    /\ buffered_at = 0
    /\ ctor = NoCtor
    /\ rel \in [1..3 -> BOOLEAN]
    /\ recipe = NoRecipe
    /\ rpc = "off"
    /\ recipe_i = 0
    /\ recipe_step = 0
    /\ trace = <<>>
    /\ DeviceAtRest
    /\ Constructed

NextRecipe ==
    \/ GoButton
    \/ StepStart
    \/ StepEnd
    \/ Finalization
    \/ NormalEnding
    \/ StopButton

SpecRecipe == InitRecipe /\ [][NextRecipe]_vars

\* property vocabulary of the recipe layer
StepCountdown == rpc = "countdown"

StepValves == Elements(recipe.valves[recipe_step + 1])

StepPlasma == recipe.plasma[recipe_step + 1]

\* the events a step adds to the trace
Added == SubSeq(trace', Len(trace) + 1, Len(trace'))

\* the calls that send a command to the generator
GeneratorCommands ==
    {"set_power_setpoint_watts", "get_power_setpoint_watts", "set_rf_on",
     "set_rf_off"}

\* the positions of the commands sent to the generator
SentAt(events) ==
    {k \in 1..Len(events) : events[k].call \in GeneratorCommands}

\* the last command sent to the generator, "" when none was sent
LastSent(events) ==
    IF SentAt(events) = {} THEN ""
    ELSE events[CHOOSE k \in SentAt(events) :
                    \A m \in SentAt(events) : m <= k].call

(***************************************************************************)
(* C37: while the countdown of step s runs, the gas lines commanded open   *)
(* are exactly valves[s].                                                  *)
(***************************************************************************)
C37_OpenValvesAreStepValves ==
    StepCountdown => OpenValves(rel) = StepValves

\* what the code gives: the valves of the step are open; others may be too
C37_StepValvesAreOpen ==
    StepCountdown => StepValves \subseteq OpenValves(rel)

(***************************************************************************)
(* C38: RF is commanded on only in steps with plasma[step] > 0, and        *)
(* whatever the open() calls return, the last command sent to the          *)
(* generator before the countdown of a step with plasma 0 is not RF-on.    *)
(***************************************************************************)
C38_RfOnStep ==
    (\E k \in 1..Len(Added) : Added[k].call = "set_rf_on") =>
        /\ rpc \in {"wait", "between"}
        /\ rpc' = "countdown"
        /\ StepPlasma > 0

C38_RfOnOnlyInPlasmaSteps == [][C38_RfOnStep]_vars

C38_RfOffBeforePlasmaFreeStep ==
    /\ StepCountdown => (LastSent(trace) = "set_rf_on" => StepPlasma > 0)
    /\ rpc \in {"between", "waitf"} => LastSent(trace) # "set_rf_on"

\* what the code gives: RF-off is sent after the countdown of a plasma step
\* when the open() of HV_OFF returns True
C38_RfOffStep ==
    (/\ StepCountdown
     /\ StepPlasma > 0
     /\ rpc' = "between"
     /\ Added # <<>>
     /\ Added[Len(Added)].call # "open") =>
        /\ Added[Len(Added)].call = "set_rf_off"
        /\ LastSent(trace') = "set_rf_off"

C38_RfOffWhenOpened == [][C38_RfOffStep]_vars

(***************************************************************************)
(* C39: end_recipe commands TEB closed, H2 closed and Ar open before any   *)
(* call on the generator connection, and whenever the connection opens it  *)
(* sends RF-off before it closes the connection.                           *)
(***************************************************************************)
EndRecipeStep == rpc # "ended" /\ rpc' = "ended"

ValvesFirst(events) ==
    /\ Len(events) >= 4
    /\ events[1] = Event("turn_OFF", "TEB", 0, TRUE)
    /\ events[2] = Event("turn_OFF", "H2", 0, TRUE)
    /\ events[3] = Event("turn_ON", "Ar", 0, TRUE)
    /\ \A k \in 1..3 : events[k].call \in {"turn_ON", "turn_OFF"}
    /\ \A k \in 4..Len(events) : events[k].call \notin {"turn_ON", "turn_OFF"}

RfOffBeforeClose(events) ==
    (\E k \in 1..Len(events) : events[k].call = "open" /\ events[k].ok) =>
        \E k \in 1..Len(events), m \in 1..Len(events) :
            /\ events[k].call = "set_rf_off"
            /\ events[m].call = "close"
            /\ k < m

C39_EndStep ==
    EndRecipeStep =>
        /\ ValvesFirst(Added)
        /\ OpenValves(rel') = {"Ar"}
        /\ RfOffBeforeClose(Added)

C39_EndRecipeSafe == [][C39_EndStep]_vars

\* what the code gives: the valves first in every case; RF-off before the
\* close when the open() of HV_OFF returns True too
C39_ValvesStep ==
    EndRecipeStep =>
        /\ ValvesFirst(Added)
        /\ OpenValves(rel') = {"Ar"}
        /\ (\A k \in 1..Len(Added) : Added[k].call = "open" => Added[k].ok)
                => RfOffBeforeClose(Added)

C39_ValvesFirstAlways == [][C39_ValvesStep]_vars

(***************************************************************************)
(* C40: each open() that returned True is followed by a close() before     *)
(* the next open().                                                        *)
(***************************************************************************)
C40_NoOpenWhileOpen ==
    \A j \in 1..Len(trace), k \in 1..Len(trace) :
        (/\ j < k
         /\ trace[j].call = "open"
         /\ trace[j].ok
         /\ trace[k].call = "open") =>
            \E m \in (j + 1)..(k - 1) : trace[m].call = "close"

\* what the code gives: close() is called by end_recipe alone, as its last
\* call, when its own open() returned True
C40_CloseStep ==
    (\E k \in 1..Len(Added) : Added[k].call = "close") =>
        /\ EndRecipeStep
        /\ Added[Len(Added)].call = "close"
        /\ Added[4] = Event("open", "", 0, TRUE)

C40_CloseOnlyInEndRecipe == [][C40_CloseStep]_vars

====
